---- MODULE Spec2Model ----
(***************************************************************************)
(* Inflectable links of the Reflect canvas (sharing-menu variant): the     *)
(* state codec (serializeStateToHash / applyHashState) and the hash sync   *)
(* controller (scheduleHashUpdate / onHashChange) of class Canvas.         *)
(*                                                                         *)
(* Strings are sequences of one-character strings.  Numbers are integers   *)
(* counting ten-thousandths (1.0 is 10000), so that the codec's rounding   *)
(* to three decimals is a real loss of information.                        *)
(***************************************************************************)
EXTENDS Integers, Sequences, FiniteSets, TLC

\* ------------------------------------------------------------------------
\* Characters and strings
\* ------------------------------------------------------------------------

\* The printable ASCII characters, code 32 (space) to 126 (~), in order (the
\* grave accent, code 96, is spelled out: it cannot be written in a string here).
Ascii ==
  << " ", "!", "\"", "#", "$", "%", "&", "'", "(", ")", "*", "+", ",", "-", ".", "/",
     "0", "1", "2", "3", "4", "5", "6", "7", "8", "9", ":", ";", "<", "=", ">", "?",
     "@", "A", "B", "C", "D", "E", "F", "G", "H", "I", "J", "K", "L", "M", "N", "O",
     "P", "Q", "R", "S", "T", "U", "V", "W", "X", "Y", "Z", "[", "\\", "]", "^", "_",
     "GRAVE", "a", "b", "c", "d", "e", "f", "g", "h", "i", "j", "k", "l", "m", "n", "o",
     "p", "q", "r", "s", "t", "u", "v", "w", "x", "y", "z", "{", "|", "}", "~" >>

CharCode(c) == 31 + (CHOOSE i \in 1..Len(Ascii) : Ascii[i] = c)

HexDigits == << "0", "1", "2", "3", "4", "5", "6", "7", "8", "9", "A", "B", "C", "D", "E", "F" >>

IsDigit(c) == c \in {"0", "1", "2", "3", "4", "5", "6", "7", "8", "9"}

DigitVal(c) == CharCode(c) - 48

IsAlpha(c) == LET k == CharCode(c) IN (k >= 65 /\ k <= 90) \/ (k >= 97 /\ k <= 122)

\* Value of a hexadecimal digit (either case), -1 when c is none.
HexVal(c) ==
  LET k == CharCode(c)
  IN IF k >= 48 /\ k <= 57 THEN k - 48
     ELSE IF k >= 65 /\ k <= 70 THEN k - 55
     ELSE IF k >= 97 /\ k <= 102 THEN k - 87
     ELSE -1

\* viewAnimationFrame = null: no view animation is in flight.
NoAnimation ==
  [active |-> FALSE, eased |-> 0, startZoom |-> 0, startX |-> 0, startY |-> 0,
   targetZoom |-> 0, targetX |-> 0, targetY |-> 0]

\* const name = v, for the statements F that follow it: F(v).
Bind(v, F(_)) == F(v)

Min(S) == CHOOSE x \in S : \A y \in S : x <= y

Max(S) == CHOOSE x \in S : \A y \in S : x >= y

\* s.substring(a - 1, b) for 1-based a and inclusive b; empty when a > b.
Sub(s, a, b) == IF a > b THEN << >> ELSE SubSeq(s, a, b)

StartsWith(s, p) == Len(s) >= Len(p) /\ SubSeq(s, 1, Len(p)) = p

\* The positions of character c in s, in increasing order.
Positions(s, c) ==
  LET pos == {i \in 1..Len(s) : s[i] = c}
      nth(k) == CHOOSE i \in pos : Cardinality({j \in pos : j < i}) = k - 1
  IN [k \in 1..Cardinality(pos) |-> nth(k)]

\* String.prototype.split(c): the pieces between the occurrences of c, empty ones kept.
Split(s, c) ==
  LET p == Positions(s, c)
      n == Len(p)
  IN [k \in 1..(n + 1) |->
        Sub(s, (IF k = 1 THEN 1 ELSE p[k - 1] + 1), (IF k = n + 1 THEN Len(s) ELSE p[k] - 1))]

\* Array.prototype.filter(Boolean) on strings: the empty pieces dropped.
RECURSIVE FilterNonEmpty(_)
FilterNonEmpty(ss) ==
  IF ss = << >> THEN << >>
  ELSE IF Head(ss) = << >> THEN FilterNonEmpty(Tail(ss))
  ELSE << Head(ss) >> \o FilterNonEmpty(Tail(ss))

\* Array.prototype.join(c).
RECURSIVE Join(_, _)
Join(ss, c) ==
  IF ss = << >> THEN << >>
  ELSE IF Len(ss) = 1 THEN ss[1]
  ELSE ss[1] \o << c >> \o Join(Tail(ss), c)

\* ------------------------------------------------------------------------
\* Numbers: Number -> string conversion and parseFloat
\* ------------------------------------------------------------------------

\* Ten-thousandths in one unit: one decimal more than roundNumber keeps.
Unit == 10 * 1000

RECURSIVE NatToStr(_)
NatToStr(n) ==
  IF n < 10 THEN << Ascii[n + 17] >>
  ELSE NatToStr(n \div 10) \o << Ascii[(n % 10) + 17] >>

\* The fraction f (0 <= f < 10000) as decimal digits without trailing zeros.
RECURSIVE StripZeros(_)
StripZeros(ds) ==
  IF ds # << >> /\ ds[Len(ds)] = "0" THEN StripZeros(SubSeq(ds, 1, Len(ds) - 1)) ELSE ds

FracDigits(f) ==
  StripZeros(<< Ascii[(f \div 1000) + 17], Ascii[((f \div 100) % 10) + 17],
                Ascii[((f \div 10) % 10) + 17], Ascii[(f % 10) + 17] >>)

\* Number.prototype.toString for a finite number of at most four decimals.
NumberToString(v) ==
  LET a == IF v < 0 THEN -v ELSE v
      ip == NatToStr(a \div Unit)
      fp == FracDigits(a % Unit)
  IN (IF v < 0 THEN << "-" >> ELSE << >>) \o ip \o (IF fp = << >> THEN << >> ELSE << "." >> \o fp)

\* Index of the first character at or after i that is no digit (Len(s) + 1 if none).
DigitRunEnd(s, i) ==
  LET stop == {j \in i..Len(s) : ~IsDigit(s[j])}
  IN IF stop = {} THEN Len(s) + 1 ELSE Min(stop)

RECURSIVE DigitsValue(_, _, _)
DigitsValue(s, a, b) ==
  IF a > b THEN 0 ELSE DigitsValue(s, a, b - 1) * 10 + DigitVal(s[b])

\* The first four fraction digits of s[a..b] as ten-thousandths.
FractionValue(s, a, b) ==
  LET d(k) == IF a + k - 1 <= b THEN DigitVal(s[a + k - 1]) ELSE 0
  IN d(1) * 1000 + d(2) * 100 + d(3) * 10 + d(4)

NaN == [nan |-> TRUE, val |-> 0]

Num(v) == [nan |-> FALSE, val |-> v]

\* parseFloat: the longest prefix [+-]digits[.digits] with at least one digit;
\* NaN when there is none.  Digits after the fourth decimal are cut off, and
\* exponents and Infinity are not read (no string of the model has them).
parseFloat(s) ==
  LET signed == s # << >> /\ s[1] \in {"-", "+"}
      i0 == IF signed THEN 2 ELSE 1
      i1 == DigitRunEnd(s, i0)
      hasDot == i1 <= Len(s) /\ s[i1] = "."
      i2 == IF hasDot THEN DigitRunEnd(s, i1 + 1) ELSE i1
      nInt == i1 - i0
      nFrac == IF hasDot THEN i2 - (i1 + 1) ELSE 0
      mag == DigitsValue(s, i0, i1 - 1) * Unit
             + (IF hasDot THEN FractionValue(s, i1 + 1, i2 - 1) ELSE 0)
  IN IF nInt + nFrac = 0 THEN NaN
     ELSE Num(IF signed /\ s[1] = "-" THEN -mag ELSE mag)

\* ------------------------------------------------------------------------
\* encodeURIComponent / decodeURIComponent
\* ------------------------------------------------------------------------

\* Characters encodeURIComponent leaves alone: A-Z a-z 0-9 - _ . ! ~ * ' ( )
IsUnreserved(c) ==
  IsAlpha(c) \/ IsDigit(c) \/ c \in {"-", "_", ".", "!", "~", "*", "'", "(", ")"}

PercentEscape(c) ==
  LET k == CharCode(c) IN << "%", HexDigits[(k \div 16) + 1], HexDigits[(k % 16) + 1] >>

RECURSIVE encodeURIComponent(_)
encodeURIComponent(s) ==
  IF s = << >> THEN << >>
  ELSE (IF IsUnreserved(Head(s)) THEN << Head(s) >> ELSE PercentEscape(Head(s)))
       \o encodeURIComponent(Tail(s))

\* decodeURIComponent: [ok |-> FALSE] stands for the URIError it throws on a
\* '%' that is not followed by two hexadecimal digits, or that encodes a byte
\* above 127 with no valid UTF-8 continuation (a lone byte in this model).
RECURSIVE DecodeFrom(_, _)
DecodeFrom(s, i) ==
  IF i > Len(s) THEN [ok |-> TRUE, str |-> << >>]
  ELSE IF s[i] # "%"
    THEN LET rest == DecodeFrom(s, i + 1)
         IN [ok |-> rest.ok, str |-> << s[i] >> \o rest.str]
  ELSE IF i + 2 > Len(s) \/ HexVal(s[i + 1]) < 0 \/ HexVal(s[i + 2]) < 0
    THEN [ok |-> FALSE, str |-> << >>]
  ELSE LET k == 16 * HexVal(s[i + 1]) + HexVal(s[i + 2])
           rest == DecodeFrom(s, i + 3)
       IN IF k < 32 \/ k > 126 THEN [ok |-> FALSE, str |-> << >>]
          ELSE [ok |-> rest.ok, str |-> << Ascii[k - 31] >> \o rest.str]

decodeURIComponent(s) == DecodeFrom(s, 1)

\* ------------------------------------------------------------------------
\* Program constants and literals
\* ------------------------------------------------------------------------

baseSize == 200

\* minZoom = 0.1 and maxZoom = 5, in ten-thousandths.
minZoom == 1000

maxZoom == 50000

dataTokenPrefix == << "d", "a", "t", "a", "-", "t", "o", "k", "e", "n", "-" >>

dataFilePrefix == << "f", "i", "l", "e", "-", "d", "a", "t", "a", "-" >>

\* The 1x1 transparent PNG data URL (its base64 payload shortened).
transparentPixel == << "d", "a", "t", "a", ":", "i", "m", "a", "g", "e", "/", "p", "n", "g", ";", "b", "a", "s", "e", "6", "4", ",", "i", "V", "B", "O", "R" >>

IMAGE == << "i", "m", "a", "g", "e" >>

IFRAME == << "i", "f", "r", "a", "m", "e" >>

CANVAS == << "c", "a", "n", "v", "a", "s" >>

TOKEN == << "t", "o", "k", "e", "n", ":" >>

\* null and undefined of a string-valued expression.
NULL == << "null" >>

\* Truthiness of a string-or-null value: neither null nor ''.
Truthy(s) == s # NULL /\ s # << >>

VARIABLES
  viewportX, viewportY, zoom,   \* signals: the viewport
  objects,                      \* signal: the ordered object list
  selectedObjectId,             \* signal: id of the selected object, 0 for null
  nextId,                       \* the next id generateId hands out
  localStorage,                 \* durable storage: key -> value
  storageFails,                 \* durable storage throws on every access
  storageFull,                  \* durable storage throws on setItem (quota)
  ephemeralTokens,              \* in-memory token map
  lastSerializedHash, hashUpdateHandle, suppressHash, hashDirty,
  skipNextHashWrite, readyForHashWrites, initialFitDone, restoredFromHash,
  wheelFlushHandle,
  isDragging, isPanningCanvas,  \* gesture flags
  dragTarget,                   \* objectId captured by the drag closures
  viewAnimation,                \* the view animation in flight, if any
  effectDirty,                  \* the hash-sync effect is scheduled to run
  location,                     \* window.location.hash
  hashchangeQueued,             \* hashchange events dispatched, not yet handled
  raised,                       \* the last handler ended by throwing
  pc,                           \* phase of the session
  frag,                         \* codec runs: the fragment under decode
  srcObjects, srcView,          \* codec runs: the scene that was encoded
  writes,                       \* history: number of assignments to location.hash
  writeLog,                     \* history: facts about the last location write
  gestureLog,                   \* history: facts about the current/last gesture
  windowLog,                    \* history: facts about the current throttle window
  clearLog,                     \* history: facts about the last cleared transition
  budget                        \* environment steps left

signals == << viewportX, viewportY, zoom, objects, selectedObjectId >>

store == << localStorage, storageFails, storageFull, ephemeralTokens >>

ctl == << lastSerializedHash, hashUpdateHandle, suppressHash, hashDirty, skipNextHashWrite,
          readyForHashWrites, initialFitDone, restoredFromHash, wheelFlushHandle >>

gest == << isDragging, isPanningCanvas, dragTarget >>

hist == << writes, writeLog, gestureLog, windowLog, clearLog >>

codecIo == << frag, srcObjects, srcView >>

vars == << signals, nextId, store, ctl, gest, viewAnimation, effectDirty, location,
           hashchangeQueued, raised, pc, codecIo, hist, budget >>

\* ------------------------------------------------------------------------
\* Encode: serializeStateToHash
\* ------------------------------------------------------------------------

\* Math.round(1000 * num / den) for den > 0, by long division so that no
\* intermediate value leaves the 32-bit integers.
Thousandths(num, den) ==
  LET q0 == num \div den
      r0 == num % den
      d1 == (10 * r0) \div den
      r1 == (10 * r0) % den
      d2 == (10 * r1) \div den
      r2 == (10 * r1) % den
      d3 == (10 * r2) \div den
      r3 == (10 * r2) % den
  IN 1000 * q0 + 100 * d1 + 10 * d2 + d3 + (IF 2 * r3 >= den THEN 1 ELSE 0)

\* A rounding that cuts the digits after the third decimal instead
\* (Math.floor in place of Math.round).
roundNumberFloor(num, den) ==
  LET n == IF den > 0 THEN num ELSE -num
      d == IF den > 0 THEN den ELSE -den
      r0 == n % d
      r1 == (10 * r0) % d
      r2 == (10 * r1) % d
  IN 10 * (1000 * (n \div d) + 100 * ((10 * r0) \div d) + 10 * ((10 * r1) \div d)
           + (10 * r2) \div d)

\* roundNumber(value) = Math.round(value * 1000) / 1000 for the number
\* value = num / den, the result in ten-thousandths.
roundNumber(num, den) ==
  IF den > 0 THEN 10 * Thousandths(num, den) ELSE 10 * Thousandths(-num, -den)

serializeCanvasSegment(vx, vy, vz) ==
  CANVAS \o << "/" >> \o NumberToString(roundNumber(vx, Unit)) \o << "," >>
         \o NumberToString(roundNumber(vy, Unit)) \o << "," >>
         \o NumberToString(roundNumber(vz, Unit))

serializeObjectSegment(obj) ==
  LET x == roundNumber(obj.x, Unit)
      y == roundNumber(obj.y, Unit)
      scale == roundNumber(obj.width, Unit * baseSize)
      rotation == roundNumber(obj.rotation, Unit)
      ratio == IF obj.width = 0 THEN Unit ELSE roundNumber(obj.height, obj.width)
      flags == << << "t", "y", "p", "e", ":" >> \o obj.type, << "r", "a", "t", "i", "o", ":" >> \o NumberToString(ratio) >>
               \o (IF Truthy(obj.displayMode) THEN << << "m", "o", "d", "e", ":" >> \o obj.displayMode >> ELSE << >>)
               \o (IF Truthy(obj.ogImage)
                     THEN << << "o", "g", ":" >> \o encodeURIComponent(obj.ogImage) >> ELSE << >>)
      ref == encodeURIComponent(obj.sourceRef)
  IN ref \o << "/" >> \o NumberToString(x) \o << "," >> \o NumberToString(y) \o << "," >>
         \o NumberToString(scale) \o << "," >> \o NumberToString(rotation)
         \o << "/" >> \o Join(flags, ",")

RECURSIVE ObjectSegments(_)
ObjectSegments(objs) ==
  IF objs = << >> THEN << >>
  ELSE (IF Head(objs).isFrameObject \/ Head(objs).isEmptyFrame THEN << >>
        ELSE << serializeObjectSegment(Head(objs)) >>)
       \o ObjectSegments(Tail(objs))

\* A serialization that writes a segment for every object of the list.
serializeStateToHashAll(vx, vy, vz, objs) ==
  Join(<< serializeCanvasSegment(vx, vy, vz) >>
       \o [i \in 1..Len(objs) |-> serializeObjectSegment(objs[i])], "#")

serializeStateToHash(vx, vy, vz, objs) ==
  Join(<< serializeCanvasSegment(vx, vy, vz) >> \o ObjectSegments(objs), "#")

\* const prefixedHash = hash ? `#${hash}` : ''
Prefixed(hash) == IF hash = << >> THEN << >> ELSE << "#" >> \o hash

\* ------------------------------------------------------------------------
\* Content store reads: resolveContent
\* ------------------------------------------------------------------------

\* localStorage.getItem(key): the value, or null.  Callers guard storageFails.
GetItem(ls, key) == IF key \in DOMAIN ls THEN ls[key] ELSE NULL

makeFileKey(filename) == dataFilePrefix \o filename

readDataToken(ls, fails, eph, token) ==
  LET value == IF fails THEN NULL ELSE GetItem(ls, token)
  IN IF Truthy(value) THEN value
     ELSE IF token \in DOMAIN eph THEN eph[token] ELSE NULL

readFileContent(ls, fails, filename) ==
  IF fails THEN NULL ELSE GetItem(ls, makeFileKey(filename))

\* isValidUrl that takes every non-empty string for a URL.
isValidUrlAny(s) == s # << >>

\* new URL(s) succeeds: s starts with a scheme (a letter, then letters, digits,
\* '+', '-', '.') and ':'; for http and https a host must follow the slashes.
isValidUrl(s) ==
  LET colons == {i \in 1..Len(s) : s[i] = ":"}
      k == IF colons = {} THEN 0 ELSE Min(colons)
      scheme == Sub(s, 1, k - 1)
      rest == Sub(s, k + 1, Len(s))
      hostAt == IF {i \in 1..Len(rest) : rest[i] # "/"} = {} THEN 0
                ELSE Min({i \in 1..Len(rest) : rest[i] # "/"})
  IN /\ k >= 2
     /\ IsAlpha(s[1])
     /\ \A i \in 2..(k - 1) : IsAlpha(s[i]) \/ IsDigit(s[i]) \/ s[i] \in {"+", "-", "."}
     /\ (scheme \in {<< "h", "t", "t", "p" >>, << "h", "t", "t", "p", "s" >>}
           => hostAt > 0 /\ rest[hostAt] \notin {"?", "#", ":", " "})

\* resolveContent that hands the reference back where the code returns null.
resolveContentOrRef(ls, fails, eph, ref, type) ==
  Bind(IF StartsWith(ref, TOKEN)
         THEN readDataToken(ls, fails, eph, Sub(ref, Len(TOKEN) + 1, Len(ref)))
         ELSE readFileContent(ls, fails, ref), LAMBDA stored :
    IF Truthy(stored) THEN stored ELSE ref)

resolveContent(ls, fails, eph, ref, type) ==
  IF StartsWith(ref, TOKEN)
    THEN readDataToken(ls, fails, eph, Sub(ref, Len(TOKEN) + 1, Len(ref)))
  ELSE LET fileStored == readFileContent(ls, fails, ref)
       IN IF Truthy(fileStored) THEN fileStored
          ELSE IF type = IFRAME
            THEN (IF isValidUrl(ref) THEN ref ELSE NULL)
          ELSE IF StartsWith(ref, << "h", "t", "t", "p", ":", "/", "/" >>) \/ StartsWith(ref, << "h", "t", "t", "p", "s", ":", "/", "/" >>)
            THEN ref
          ELSE NULL

\* ------------------------------------------------------------------------
\* The content store: references for dropped and pasted content
\* ------------------------------------------------------------------------

\* localStorage.setItem(key, value) and Map.set on a store that takes it.
SetItem(ls, key, value) == [k \in DOMAIN ls \cup {key} |-> IF k = key THEN value ELSE ls[k]]

\* localStorage.removeItem(key) and Map.delete.
RemoveItem(ls, key) == [k \in DOMAIN ls \ {key} |-> ls[k]]

\* A stamp of one character for the n-th call.
Stamp(n) == << HexDigits[n + 1] >>

\* createDataToken(dataUrl): [ref, ls, eph].  stamp stands for
\* Date.now() + '-' + random, different at every call.
createDataToken(ls, fails, full, eph, dataUrl, stamp) ==
  Bind(dataTokenPrefix \o stamp, LAMBDA token :
    [ref |-> TOKEN \o token,
     ls |-> IF fails \/ full THEN ls ELSE SetItem(ls, token, dataUrl),
     eph |-> IF fails \/ full THEN SetItem(eph, token, dataUrl) ELSE eph])

\* deriveSourceRef(content, filename): [ref, ls, eph]; filename is NULL when
\* the caller passes none.
deriveSourceRef(ls, fails, full, eph, content, filename, stamp) ==
  IF StartsWith(content, << "d", "a", "t", "a", ":" >>)
    THEN IF Truthy(filename) /\ ~(fails \/ full)
           THEN [ref |-> filename, ls |-> SetItem(ls, makeFileKey(filename), content), eph |-> eph]
           ELSE createDataToken(ls, fails, full, eph, content, stamp)
  ELSE [ref |-> IF filename # NULL THEN filename ELSE content, ls |-> ls, eph |-> eph]

\* cleanupObjectStorage(obj): [ls, eph].
cleanupObjectStorage(ls, fails, eph, obj) ==
  IF Truthy(obj.sourceRef) /\ ~StartsWith(obj.sourceRef, TOKEN)
       /\ ~StartsWith(obj.sourceRef, << "h", "t", "t", "p" >>)
    THEN [ls |-> IF fails THEN ls ELSE RemoveItem(ls, makeFileKey(obj.sourceRef)), eph |-> eph]
  ELSE IF obj.sourceRef # NULL /\ StartsWith(obj.sourceRef, TOKEN)
    THEN Bind(Sub(obj.sourceRef, Len(TOKEN) + 1, Len(obj.sourceRef)), LAMBDA tokenId :
           [ls |-> IF fails THEN ls ELSE RemoveItem(ls, tokenId), eph |-> RemoveItem(eph, tokenId)])
  ELSE [ls |-> ls, eph |-> eph]

\* A purge that scans the token entries only.
cleanupOrphanedTokens(ls, fails, objs) ==
  IF fails THEN ls
  ELSE Bind({ objs[i].sourceRef : i \in 1..Len(objs) }, LAMBDA activeRefs :
    [k \in { key \in DOMAIN ls :
               StartsWith(key, dataTokenPrefix) => (TOKEN \o key) \in activeRefs } |-> ls[k]])

\* cleanupOrphanedStorage(): the durable store after it.
cleanupOrphanedStorage(ls, fails, objs) ==
  IF fails THEN ls
  ELSE Bind({ objs[i].sourceRef : i \in 1..Len(objs) }, LAMBDA activeRefs :
    [k \in { key \in DOMAIN ls :
               /\ StartsWith(key, dataTokenPrefix) => (TOKEN \o key) \in activeRefs
               /\ (~StartsWith(key, dataTokenPrefix) /\ StartsWith(key, dataFilePrefix))
                    => Sub(key, Len(dataFilePrefix) + 1, Len(key)) \in activeRefs } |-> ls[k]])

\* ------------------------------------------------------------------------
\* Decode: applyHashState
\* ------------------------------------------------------------------------

\* parts.length === 4 && parts.every(p => !Number.isNaN(parseFloat(p)))
IsTransformBlock(t) ==
  LET parts == Split(t, ",")
  IN Len(parts) = 4 /\ \A k \in 1..4 : ~parseFloat(parts[k]).nan

\* The scan with a default in place of a drop: a segment with two slashes and
\* no transform block is read with the block 0,0,1,0 between its last two.
ScanSegmentDefaulting(segment) ==
  Bind(Positions(segment, "/"), LAMBDA slashIndexes :
  Bind({k \in 1..(Len(slashIndexes) - 1) :
          IsTransformBlock(Sub(segment, slashIndexes[k] + 1, slashIndexes[k + 1] - 1))},
       LAMBDA hits :
  Bind(IF hits = {} THEN Len(slashIndexes) - 1 ELSE Max(hits), LAMBDA i :
    IF Len(slashIndexes) < 2 \/ Sub(segment, 1, slashIndexes[i] - 1) = << >>
      THEN [found |-> FALSE, encodedRef |-> << >>, transformPart |-> << >>, flagsPart |-> << >>]
      ELSE [found |-> TRUE,
            encodedRef |-> Sub(segment, 1, slashIndexes[i] - 1),
            transformPart |-> IF hits = {} THEN << "0", ",", "0", ",", "1", ",", "0" >>
                              ELSE Sub(segment, slashIndexes[i] + 1, slashIndexes[i + 1] - 1),
            flagsPart |-> Sub(segment, slashIndexes[i + 1] + 1, Len(segment))])))

\* The slashIndexes scan of one segment: the rightmost pair of consecutive
\* slashes that encloses a transform block.  found is FALSE when the code
\* reaches `continue` (fewer than two slashes, no block, or an empty ref).
ScanSegment(segment) ==
  Bind(Positions(segment, "/"), LAMBDA slashIndexes :
  Bind({k \in 1..(Len(slashIndexes) - 1) :
          IsTransformBlock(Sub(segment, slashIndexes[k] + 1, slashIndexes[k + 1] - 1))},
       LAMBDA hits :
  Bind(IF hits = {} THEN 0 ELSE Max(hits), LAMBDA i :
    IF Len(slashIndexes) < 2 \/ i = 0 \/ Sub(segment, 1, slashIndexes[i] - 1) = << >>
      THEN [found |-> FALSE, encodedRef |-> << >>, transformPart |-> << >>, flagsPart |-> << >>]
      ELSE [found |-> TRUE,
            encodedRef |-> Sub(segment, 1, slashIndexes[i] - 1),
            transformPart |-> Sub(segment, slashIndexes[i] + 1, slashIndexes[i + 1] - 1),
            flagsPart |-> Sub(segment, slashIndexes[i + 1] + 1, Len(segment))])))

\* parseFlags: the entries `key:value` as a sequence of [k, isNum, num, str],
\* in the order map.set is called; a later entry of the same key wins.
RECURSIVE FlagEntries(_)
FlagEntries(entries) ==
  IF entries = << >> THEN << >>
  ELSE Bind(Head(entries), LAMBDA entry :
       Bind({i \in 1..Len(entry) : entry[i] = ":"}, LAMBDA seps :
       Bind(IF seps = {} THEN 0 ELSE Min(seps), LAMBDA sep :
       Bind(Sub(entry, sep + 1, Len(entry)), LAMBDA v :
       Bind(parseFloat(v), LAMBDA num :
         IF sep <= 1 THEN << >>
         ELSE << [k |-> Sub(entry, 1, sep - 1), isNum |-> ~num.nan, num |-> num.val,
                  str |-> IF num.nan THEN v ELSE << >>] >>)))))
       \o FlagEntries(Tail(entries))

parseFlags(flags) == IF flags = << >> THEN << >> ELSE FlagEntries(Split(flags, ","))

FlagHas(map, key) == \E i \in 1..Len(map) : map[i].k = key

FlagGet(map, key) == map[Max({i \in 1..Len(map) : map[i].k = key})]

\* Truthiness of a flag value: a number other than 0, a string other than ''.
FlagTruthy(f) == IF f.isNum THEN f.num # 0 ELSE f.str # << >>

\* String(value) of a flag value.
FlagString(f) == IF f.isNum THEN NumberToString(f.num) ELSE f.str

\* a * b for ten-thousandths a and b, the product cut to ten-thousandths.
Times(a, b) == (a \div Unit) * b + ((a % Unit) * b) \div Unit

\* One object segment after the scan: [raise, keep, obj], obj without its id.
DecodeObject(ls, fails, eph, ref, transformPart, flagsPart) ==
  Bind(Split(transformPart, ","), LAMBDA t :
  Bind(parseFlags(flagsPart), LAMBDA flagMap :
  Bind(IF FlagHas(flagMap, << "r", "a", "t", "i", "o" >>) /\ FlagGet(flagMap, << "r", "a", "t", "i", "o" >>).isNum
         THEN FlagGet(flagMap, << "r", "a", "t", "i", "o" >>).num ELSE Unit, LAMBDA safeRatio :
  Bind(IF FlagHas(flagMap, << "t", "y", "p", "e" >>) THEN FlagString(FlagGet(flagMap, << "t", "y", "p", "e" >>)) ELSE IMAGE,
       LAMBDA type :
  Bind(IF FlagHas(flagMap, << "m", "o", "d", "e" >>) THEN FlagString(FlagGet(flagMap, << "m", "o", "d", "e" >>)) ELSE IMAGE,
       LAMBDA displayMode :
  Bind(IF FlagHas(flagMap, << "o", "g" >>) /\ FlagTruthy(FlagGet(flagMap, << "o", "g" >>))
         THEN decodeURIComponent(FlagString(FlagGet(flagMap, << "o", "g" >>)))
         ELSE [ok |-> TRUE, str |-> NULL], LAMBDA og :
  Bind(baseSize * parseFloat(t[3]).val, LAMBDA width :
  Bind(resolveContent(ls, fails, eph, ref, type), LAMBDA resolved :
    IF ~og.ok THEN [raise |-> TRUE, keep |-> FALSE, obj |-> << >>]
    ELSE IF ~Truthy(resolved) /\ type # IMAGE THEN [raise |-> FALSE, keep |-> FALSE, obj |-> << >>]
    ELSE [raise |-> FALSE, keep |-> TRUE,
          obj |-> [type |-> type, x |-> parseFloat(t[1]).val, y |-> parseFloat(t[2]).val,
                   width |-> width, height |-> Times(width, safeRatio),
                   rotation |-> parseFloat(t[4]).val,
                   content |-> IF Truthy(resolved) THEN resolved ELSE transparentPixel,
                   sourceRef |-> ref, originalAspectRatio |-> safeRatio,
                   ogImage |-> og.str, displayMode |-> displayMode,
                   isEmptyFrame |-> FALSE, isFrameObject |-> FALSE]]))))))))

\* vz clamped: Math.max(minZoom, Math.min(maxZoom, vz))
ClampZoom(vz) == Max({minZoom, Min({maxZoom, vz})})

\* The loop over the segments.  acc = [raise, objs, seen, vx, vy, vz]; a throw
\* (raise) ends the loop with nothing applied.
RECURSIVE DecodeSegments(_, _, _, _, _)
DecodeSegments(ls, fails, eph, segments, acc) ==
  IF segments = << >> \/ acc.raise THEN acc
  ELSE DecodeSegments(ls, fails, eph, Tail(segments),
         Bind(ScanSegment(Head(segments)), LAMBDA sc :
         Bind(sc.encodedRef \o << "|" >> \o sc.transformPart \o << "|" >> \o sc.flagsPart,
              LAMBDA segmentKey :
           IF ~sc.found \/ segmentKey \in acc.seen THEN acc
           ELSE Bind(decodeURIComponent(sc.encodedRef), LAMBDA ref :
             IF ~ref.ok THEN [acc EXCEPT !.raise = TRUE]
             ELSE IF ref.str = CANVAS
               THEN Bind(Split(sc.transformPart, ","), LAMBDA t :
                      [acc EXCEPT !.seen = @ \cup {segmentKey},
                                  !.vx = parseFloat(t[1]).val,
                                  !.vy = parseFloat(t[2]).val,
                                  !.vz = ClampZoom(parseFloat(t[3]).val)])
             ELSE Bind(DecodeObject(ls, fails, eph, ref.str, sc.transformPart, sc.flagsPart),
                       LAMBDA o :
                      IF o.raise THEN [acc EXCEPT !.raise = TRUE]
                      ELSE [acc EXCEPT !.seen = @ \cup {segmentKey},
                                       !.objs = IF o.keep THEN Append(@, o.obj) ELSE @])))))

\* generateId for each decoded object, in list order.
WithIds(objs, first) ==
  [i \in 1..Len(objs) |-> [id |-> first + i - 1] @@ objs[i]]

\* applyHashState up to the assignments to the signals: [early, raise, vx, vy,
\* vz, objs].  early: one of the returns before the loop was taken.
DecodeHash(ls, fails, eph, hash, vx, vy, vz) ==
  Bind(FilterNonEmpty(Split(Sub(hash, 2, Len(hash)), "#")), LAMBDA segments :
    IF Len(hash) <= 1 \/ segments = << >>
      THEN [early |-> TRUE, raise |-> FALSE, vx |-> vx, vy |-> vy, vz |-> vz, objs |-> << >>]
      ELSE Bind(DecodeSegments(ls, fails, eph, segments,
                  [raise |-> FALSE, objs |-> << >>, seen |-> {}, vx |-> vx, vy |-> vy, vz |-> vz]),
                LAMBDA acc :
             [early |-> FALSE, raise |-> acc.raise, vx |-> acc.vx, vy |-> acc.vy, vz |-> acc.vz,
              objs |-> acc.objs]))

\* ------------------------------------------------------------------------
\* Bounds and inputs of the model
\* ------------------------------------------------------------------------

\* Objects on the canvas at once.
MaxObjects == 2

\* Objects in a scene handed to the codec.
MaxSceneLen == 2

\* User and external events in one session.
MaxEvents == 2

U1 == << "h", "t", "t", "p", ":", "/", "/", "a", ".", "b" >>

U2 == << "h", "t", "t", "p", "s", ":", "/", "/", "b", ".", "c", "/", "x", ",", "y", "?", "q", "=", "1", "#", "f" >>

OG1 == << "h", "t", "t", "p", ":", "/", "/", "a", ".", "b", "/", "i" >>

\* An object as the paste handler builds it: a 600 x 400 iframe at (x, y).
UrlObject(id, url, x, y) ==
  [id |-> id, type |-> IFRAME, x |-> x, y |-> y, width |-> 600 * Unit, height |-> 400 * Unit,
   rotation |-> 0, content |-> url, sourceRef |-> url, originalAspectRatio |-> 6666,
   ogImage |-> NULL, displayMode |-> IMAGE, isEmptyFrame |-> FALSE, isFrameObject |-> FALSE]

\* ------------------------------------------------------------------------
\* applyHashState as a step of the program
\* ------------------------------------------------------------------------

\* applyHashState(hash): what the call leaves behind.  returned is "early" (a
\* return before the loop), "raise" (a throw inside the loop, nothing
\* assigned), "done", or "doneRaise": outside the constructor afterNextRender,
\* reached through fitOnceAfterLoad, throws after the signals were assigned
\* and initialFitDone was set.
applyHashState(hash, inInjectionContext) ==
  Bind(DecodeHash(localStorage, storageFails, ephemeralTokens, hash, viewportX, viewportY, zoom),
       LAMBDA d :
  Bind(~restoredFromHash /\ Len(d.objs) > 0 /\ ~initialFitDone, LAMBDA fits :
    IF d.early \/ d.raise
      THEN [returned |-> IF d.raise THEN "raise" ELSE "early",
            viewportX |-> viewportX, viewportY |-> viewportY, zoom |-> zoom,
            objects |-> objects, nextId |-> nextId, selectedObjectId |-> selectedObjectId,
            lastSerializedHash |-> lastSerializedHash, initialFitDone |-> initialFitDone,
            effectDirty |-> effectDirty]
      ELSE [returned |-> IF fits /\ ~inInjectionContext THEN "doneRaise" ELSE "done",
            viewportX |-> d.vx, viewportY |-> d.vy, zoom |-> d.vz,
            objects |-> WithIds(d.objs, nextId), nextId |-> nextId + Len(d.objs),
            selectedObjectId |-> 0,
            lastSerializedHash |-> IF StartsWith(hash, << "#" >>) THEN hash ELSE << "#" >> \o hash,
            initialFitDone |-> (initialFitDone \/ fits),
            effectDirty |-> TRUE]))

\* The assignments of applyHashState.  last: the fragment onHashChange records
\* after a call that returned (empty when the caller records nothing).
Applied(r, last) ==
  /\ viewportX' = r.viewportX
  /\ viewportY' = r.viewportY
  /\ zoom' = r.zoom
  /\ objects' = r.objects
  /\ nextId' = r.nextId
  /\ selectedObjectId' = r.selectedObjectId
  /\ initialFitDone' = r.initialFitDone
  /\ effectDirty' = r.effectDirty
  /\ raised' = (r.returned \in {"raise", "doneRaise"})
  /\ lastSerializedHash' = (IF last # << >> /\ r.returned \in {"early", "done"} THEN last
                            ELSE r.lastSerializedHash)

\* ------------------------------------------------------------------------
\* The codec on its own: encode a scene, decode a fragment
\* ------------------------------------------------------------------------

CodecObject(type, ref, x, y, width, height, rotation, og, mode) ==
  [type |-> type, x |-> x, y |-> y, width |-> width, height |-> height,
   rotation |-> rotation, content |-> ref, sourceRef |-> ref,
   originalAspectRatio |-> Unit, ogImage |-> og, displayMode |-> mode,
   isEmptyFrame |-> FALSE, isFrameObject |-> FALSE]

\* Persistable objects with an absolute http(s) reference.
CodecObjects ==
  { CodecObject(IFRAME, U1, 123456, -70000, 600 * Unit, 400 * Unit, 0, NULL, IMAGE),
    CodecObject(IFRAME, U1, 0, 5, 600 * Unit, 400 * Unit, 0, NULL, IMAGE),
    CodecObject(IMAGE, U2, -123455, 1000000, 1234567, 925925, 455000, OG1, IFRAME),
    CodecObject(IFRAME, U2, 14, -15, 200 * Unit, 200 * Unit, -900000, OG1, IMAGE) }

RECURSIVE Lists(_, _)
Lists(S, n) ==
  IF n = 0 THEN { << >> }
  ELSE Lists(S, n - 1) \cup { Append(l, e) : l \in {m \in Lists(S, n - 1) : Len(m) = n - 1}, e \in S }

\* Viewports [x, y, zoom], zoom within [minZoom, maxZoom].
CodecViews ==
  { [x |-> 0, y |-> 0, zoom |-> Unit],
    [x |-> 123456, y |-> -70000, zoom |-> 12500],
    [x |-> -1000005, y |-> 30000, zoom |-> minZoom],
    [x |-> 14, y |-> 400 * Unit, zoom |-> maxZoom] }

\* Viewports a session can be at when a fragment arrives.
PriorViews ==
  { [x |-> 0, y |-> 0, zoom |-> Unit], [x |-> 70000, y |-> -20000, zoom |-> 20000] }

\* Fragments written by hand.
\* a malformed percent-escape in the reference: #%zz/1,2,3,4/type:image
FragBadRef == << "#", "%", "z", "z", "/", "1", ",", "2", ",", "3", ",", "4", "/", "t", "y", "p", "e", ":", "i", "m", "a", "g", "e" >>

\* a malformed percent-escape in the og flag: #http%3A%2F%2Fa.b/1,2,3,4/type:iframe,og:%E0%A4%A
FragBadOg == << "#", "h", "t", "t", "p", "%", "3", "A", "%", "2", "F", "%", "2", "F", "a", ".", "b", "/", "1", ",", "2", ",", "3", ",", "4", "/", "t", "y", "p", "e", ":", "i", "f", "r", "a", "m", "e", ",", "o", "g", ":", "%", "E", "0", "%", "A", "4", "%", "A" >>

\* the 3-number canvas segment, zoom above the range: #canvas/1,2,999
FragCanvasHigh == << "#", "c", "a", "n", "v", "a", "s", "/", "1", ",", "2", ",", "9", "9", "9" >>

\* the 3-number canvas segment, zoom below the range: #canvas/1,2,0
FragCanvasLow == << "#", "c", "a", "n", "v", "a", "s", "/", "1", ",", "2", ",", "0" >>

\* a canvas segment in the shape of an object segment: #canvas/1,2,999,0/
FragCanvasFour == << "#", "c", "a", "n", "v", "a", "s", "/", "1", ",", "2", ",", "9", "9", "9", ",", "0", "/" >>

\* a well-formed segment, then a malformed escape: #canvas/1,2,0,0/#http://a.b/1,2,3,4/type:iframe#%zz/1,2,3,4/x
FragMixed == << "#", "c", "a", "n", "v", "a", "s", "/", "1", ",", "2", ",", "0", ",", "0", "/", "#", "h", "t", "t", "p", ":", "/", "/", "a", ".", "b", "/", "1", ",", "2", ",", "3", ",", "4", "/", "t", "y", "p", "e", ":", "i", "f", "r", "a", "m", "e", "#", "%", "z", "z", "/", "1", ",", "2", ",", "3", ",", "4", "/", "x" >>

\* wrong field counts and a non-numeric field, then a well-formed segment: #a/b#x/1,2,3/type:image#x/1,a,3,4/t#http%3A%2F%2Fa.b/5,6,1.5,90/type:image,ratio:0.5
FragCounts == << "#", "a", "/", "b", "#", "x", "/", "1", ",", "2", ",", "3", "/", "t", "y", "p", "e", ":", "i", "m", "a", "g", "e", "#", "x", "/", "1", ",", "a", ",", "3", ",", "4", "/", "t", "#", "h", "t", "t", "p", "%", "3", "A", "%", "2", "F", "%", "2", "F", "a", ".", "b", "/", "5", ",", "6", ",", "1", ".", "5", ",", "9", "0", "/", "t", "y", "p", "e", ":", "i", "m", "a", "g", "e", ",", "r", "a", "t", "i", "o", ":", "0", ".", "5" >>

HandFragments ==
  { FragBadRef, FragBadOg, FragCanvasHigh, FragCanvasLow, FragCanvasFour, FragMixed, FragCounts }

InitCodec ==
  /\ pc = "scene"
  /\ \E v \in CodecViews :
       /\ viewportX = v.x /\ viewportY = v.y /\ zoom = v.zoom
       /\ srcView = [x |-> v.x, y |-> v.y, zoom |-> v.zoom, from |-> "scene"]
  /\ \E l \in Lists(CodecObjects, MaxSceneLen) :
       /\ objects = WithIds(l, 1)
       /\ srcObjects = objects
       /\ nextId = Len(l) + 1
  /\ selectedObjectId = 0
  /\ localStorage = << >> /\ storageFails = FALSE /\ ephemeralTokens = << >>
  /\ storageFull = FALSE
  /\ lastSerializedHash = << >> /\ hashUpdateHandle = FALSE /\ suppressHash = FALSE
  /\ hashDirty = FALSE /\ skipNextHashWrite = FALSE /\ readyForHashWrites = TRUE
  /\ initialFitDone = FALSE /\ restoredFromHash = TRUE /\ wheelFlushHandle = FALSE
  /\ isDragging = FALSE /\ isPanningCanvas = FALSE /\ dragTarget = 0
  /\ viewAnimation = NoAnimation
  /\ effectDirty = FALSE /\ location = << >> /\ hashchangeQueued = 0
  /\ raised = FALSE /\ frag = << >>
  /\ writes = 0 /\ writeLog = << >> /\ gestureLog = << >> /\ windowLog = << >>
  /\ clearLog = << >> /\ budget = 0

codecFixed == << store, hashUpdateHandle, suppressHash, hashDirty, skipNextHashWrite,
                 readyForHashWrites, restoredFromHash, wheelFlushHandle, gest, viewAnimation,
                 location, hashchangeQueued, hist, budget >>

\* '#' + serializeStateToHash() of the live scene.
CodecSerialize ==
  /\ pc = "scene"
  /\ frag' = << "#" >> \o serializeStateToHash(viewportX, viewportY, zoom, objects)
  /\ srcView' = [srcView EXCEPT !.from = "encode"]
  /\ pc' = "encoded"
  /\ UNCHANGED << signals, nextId, lastSerializedHash, initialFitDone, effectDirty, raised,
                  srcObjects, codecFixed >>

\* A fragment from elsewhere takes the place of an encoded one.
CodecHandEdit(h) ==
  /\ pc = "scene"
  /\ frag' = h
  /\ srcView' = [srcView EXCEPT !.from = "hand"]
  /\ pc' = "encoded"
  /\ UNCHANGED << signals, nextId, lastSerializedHash, initialFitDone, effectDirty, raised,
                  srcObjects, codecFixed >>

\* The user pans and zooms to v while the fragment waits to be decoded.
CodecMoveViewport(v) ==
  /\ pc = "encoded"
  /\ viewportX' = v.x /\ viewportY' = v.y /\ zoom' = v.zoom
  /\ pc' = "moved"
  /\ UNCHANGED << objects, selectedObjectId, nextId, lastSerializedHash, initialFitDone,
                  effectDirty, raised, codecIo, codecFixed >>

CodecApply ==
  /\ pc \in {"encoded", "moved"}
  /\ Applied(applyHashState(frag, TRUE), << >>)
  /\ pc' = IF pc = "moved" THEN "decodedMoved" ELSE "decoded"
  /\ UNCHANGED << codecIo, codecFixed >>

NextCodec ==
  \/ CodecSerialize
  \/ \E h \in HandFragments : CodecHandEdit(h)
  \/ \E v \in PriorViews : CodecMoveViewport(v)
  \/ CodecApply

SpecCodec == InitCodec /\ [][NextCodec]_vars

\* ------------------------------------------------------------------------
\* Properties of the codec
\* ------------------------------------------------------------------------

Decoded == pc \in {"decoded", "decodedMoved"}

\* v rounded to 3 decimals, half up.
Nearest3(v) == 10 * ((v + 5) \div 10)

\* The object a decode of the encoding of o must give, ids aside.
SameUpToRounding(o, d) ==
  LET width == 2000 * ((o.width + 1000) \div 2000)
  IN /\ d.type = o.type
     /\ d.sourceRef = o.sourceRef
     /\ d.x = Nearest3(o.x)
     /\ d.y = Nearest3(o.y)
     /\ d.width = width
     /\ d.height = Times(width, 10 * Thousandths(o.height, o.width))
     /\ d.rotation = Nearest3(o.rotation)
     /\ d.displayMode = o.displayMode
     /\ d.ogImage = o.ogImage

DistinctSegments(objs) ==
  \A i, j \in 1..Len(objs) :
    i < j => serializeObjectSegment(objs[i]) # serializeObjectSegment(objs[j])

\* C1 as stated: decoding the fragment the encoder produced for a list of
\* objects with absolute http(s) references gives a list of the same length
\* and order, each object equal in kind, reference, x, y, width, height,
\* rotation, displayMode and previewImage up to the 3-decimal rounding.
C1_RoundTripAnyList ==
  (Decoded /\ srcView.from = "encode") =>
    /\ ~raised
    /\ Len(objects) = Len(srcObjects)
    /\ \A i \in 1..Len(srcObjects) : SameUpToRounding(srcObjects[i], objects[i])

\* C1, amended: the same round trip for the lists whose objects have pairwise
\* distinct encoded segments (the decoder drops a repeated segment).
C1_RoundTripDistinct ==
  (Decoded /\ srcView.from = "encode" /\ DistinctSegments(srcObjects)) =>
    /\ ~raised
    /\ Len(objects) = Len(srcObjects)
    /\ \A i \in 1..Len(srcObjects) : SameUpToRounding(srcObjects[i], objects[i])

\* C1 witness: two objects with distinct segments, one with a coordinate that
\* rounding changes and one with a preview image, encoded and decoded.
C1_Witness ==
  /\ Decoded /\ srcView.from = "encode" /\ DistinctSegments(srcObjects)
  /\ Len(srcObjects) = 2 /\ Len(objects) = 2
  /\ srcObjects[1].x # Nearest3(srcObjects[1].x)
  /\ srcObjects[2].ogImage # NULL
  /\ srcObjects[1].sourceRef = srcObjects[2].sourceRef

\* C2: decoding the fragment the encoder produced sets panX, panY and zoom to
\* the encoded (rounded) values, whatever the viewport was before the decode.
C2_ViewportRoundTrip ==
  (Decoded /\ srcView.from = "encode") =>
    /\ viewportX = Nearest3(srcView.x)
    /\ viewportY = Nearest3(srcView.y)
    /\ zoom = Nearest3(srcView.zoom)

\* C7: decode never raises, whatever the fragment (malformed percent-escapes
\* in a reference or in an og flag, wrong field counts, non-numeric fields),
\* and a well-formed segment next to a malformed one still gives its object.
C7_DecodeNeverRaises ==
  Decoded =>
    /\ ~raised
    /\ (frag \in {FragMixed, FragCounts} => Len(objects) = 1)

\* C10: the 3-number canvas segment canvas/x,y,z sets zoom to z clamped to
\* [minZoom, maxZoom] (999 gives maxZoom, 0 gives minZoom) and gives no object.
C10_CanvasClamp ==
  Decoded =>
    /\ (frag = FragCanvasHigh => zoom = maxZoom /\ objects = << >>)
    /\ (frag = FragCanvasLow => zoom = minZoom /\ objects = << >>)

\* ------------------------------------------------------------------------
\* The hash-sync controller: a session of the canvas
\* ------------------------------------------------------------------------

\* The fragment of a shared link: one embedded page with its preview image.
FragLoad == << "#", "c", "a", "n", "v", "a", "s", "/", "0", ",", "0", ",", "1", "#", "h", "t", "t", "p", "%", "3", "A", "%", "2", "F", "%", "2", "F", "a", ".", "b", "/", "0", ",", "0", ",", "3", ",", "0", "/", "t", "y", "p", "e", ":", "i", "f", "r", "a", "m", "e", ",", "r", "a", "t", "i", "o", ":", "0", ".", "6", "6", "7", ",", "m", "o", "d", "e", ":", "i", "m", "a", "g", "e", ",", "o", "g", ":", "h", "t", "t", "p", "%", "3", "A", "%", "2", "F", "%", "2", "F", "a", ".", "b", "%", "2", "F", "i" >>

\* A short fragment that holds no segment the decoder accepts.
FragShort == << "#", "x" >>

\* A fragment typed by hand: one embedded page, the reference not escaped.
FragTyped == << "#", "h", "t", "t", "p", ":", "/", "/", "a", ".", "b", "/", "5", ",", "6", ",", "1", ",", "0", "/", "t", "y", "p", "e", ":", "i", "f", "r", "a", "m", "e" >>

\* window.location.hash at load.
LoadHashes == { << >>, FragLoad }

\* The fragment of the empty scene at the default viewport: #canvas/0,0,1
FragCanvasDefault == << "#", "c", "a", "n", "v", "a", "s", "/", "0", ",", "0", ",", "1" >>

\* Fragments the user or another page navigates to.
ExtHashes == { << >>, FragShort, FragTyped, FragCanvasDefault }

\* Plane x of a dragged object (0.0004 is lost in the rounding); viewportX
\* while panning.
PlaneXs == { 4, 123456 }

PanXs == { 0, 70000 }

\* zoomFactor of a wheel event, in tenths.
ZoomFactors == { 11 }

CurrentPrefixed == Prefixed(serializeStateToHash(viewportX, viewportY, zoom, objects))

\* scheduleHashUpdate(): the fields it leaves behind.  handle: the debounce
\* timer is armed (an armed timer is cleared and armed again).
scheduleHashUpdate(skip, ready, suppress, dirty, handle) ==
  IF skip THEN [skip |-> FALSE, dirty |-> FALSE, handle |-> handle]
  ELSE IF ~ready THEN [skip |-> FALSE, dirty |-> TRUE, handle |-> handle]
  ELSE IF suppress THEN [skip |-> FALSE, dirty |-> TRUE, handle |-> handle]
  ELSE [skip |-> FALSE, dirty |-> dirty, handle |-> TRUE]

\* A gesture end that leaves the dirty mark where it is.
flushNever(skip, ready, dirty, handle) ==
  [skip |-> skip, dirty |-> dirty, handle |-> handle]

\* The end of a gesture, after suppressHash = false:
\* if (this.hashDirty) this.scheduleHashUpdate()
flushIfDirty(skip, ready, dirty, handle) ==
  IF dirty THEN scheduleHashUpdate(skip, ready, FALSE, dirty, handle)
  ELSE [skip |-> skip, dirty |-> dirty, handle |-> handle]

Scheduled(r) ==
  /\ skipNextHashWrite' = r.skip
  /\ hashDirty' = r.dirty
  /\ hashUpdateHandle' = r.handle

\* The state after the constructor ran on a page whose fragment is h, the
\* durable store holding ls.
ConstructedOn(ls, fails, h) ==
  \E d \in {DecodeHash(ls, fails, << >>, h, 0, 0, Unit)} :
    \E applied \in {~d.early /\ ~d.raise} :
      /\ viewportX = d.vx /\ viewportY = d.vy /\ zoom = d.vz
      /\ objects = (IF applied THEN WithIds(d.objs, 1) ELSE << >>)
      /\ nextId = (IF applied THEN Len(d.objs) + 1 ELSE 1)
      /\ selectedObjectId = 0
      /\ lastSerializedHash = (IF applied THEN h ELSE << >>)
      /\ restoredFromHash = (h # << >>)
      /\ location = h

\* The same on a device with an empty store.
Constructed(h) == ConstructedOn(<< >>, FALSE, h)

NoWrite == [suppressed |-> FALSE, intact |-> FALSE, echoed |-> FALSE, changed |-> FALSE]

\* History of the last fragment the hashchange listener handled.  quiet: it
\* was the cleared fragment; applied: it was decoded and assigned, with budget
\* at events left and a gesture in progress or not; writesAfter, written: the
\* location writes since, and the last of them.
NoClear == [quiet |-> FALSE, applied |-> FALSE, at |-> 0, gesture |-> FALSE, writesAfter |-> 0,
            written |-> << >>]

NoGesture == [phase |-> "none", moved |-> FALSE, dirtyMarked |-> FALSE, dirtyAtEnd |-> FALSE,
              pendingAtEnd |-> FALSE, endEnc |-> << >>, lastAtEnd |-> << >>, writesAfter |-> 0]

\* The throttle window so far: muts changes by the user, all of them (pure)
\* made while not suppressed, with no skip pending and no fragment change.
Window(muts, pure) ==
  [muts |-> IF pure THEN muts ELSE 0, pure |-> pure, fired |-> FALSE, firedMuts |-> 0,
   firedPure |-> FALSE, wrote |-> FALSE, lastBefore |-> << >>]

Init ==
  /\ pc = "ready"
  /\ \E h \in LoadHashes : Constructed(h)
  /\ localStorage = << >> /\ storageFails = FALSE /\ ephemeralTokens = << >>
  /\ storageFull = FALSE
  /\ hashUpdateHandle = FALSE /\ suppressHash = FALSE /\ hashDirty = FALSE
  /\ skipNextHashWrite = FALSE /\ readyForHashWrites = TRUE
  /\ initialFitDone = FALSE /\ wheelFlushHandle = FALSE
  /\ isDragging = FALSE /\ isPanningCanvas = FALSE /\ dragTarget = 0
  /\ viewAnimation = NoAnimation
  /\ effectDirty = TRUE
  /\ hashchangeQueued = 0 /\ raised = FALSE
  /\ frag = << >> /\ srcObjects = << >> /\ srcView = << >>
  /\ writes = 0
  /\ writeLog = NoWrite
  /\ gestureLog = NoGesture
  /\ windowLog = Window(0, TRUE)
  /\ clearLog = NoClear
  /\ budget = MaxEvents

\* What a step that writes to the content store leaves alone of sessionFixed.
storeFixed == << storageFails, storageFull, readyForHashWrites, restoredFromHash, pc, codecIo,
                viewAnimation >>

\* What no other step of a session touches.
sessionFixed == << store, readyForHashWrites, restoredFromHash, pc, codecIo, viewAnimation >>

\* History of a step in which the user changes the scene.  marks: the step
\* called scheduleHashUpdate and that call set hashDirty under suppressHash.
\* gestureLog.dirtyMarked: a change made during the gesture was marked dirty.
LogMutation(marks) ==
  /\ writes' = writes
  /\ writeLog' = [writeLog EXCEPT !.suppressed = FALSE, !.echoed = FALSE, !.changed = FALSE]
  /\ gestureLog' = IF gestureLog.phase = "ended" THEN NoGesture
                   ELSE IF gestureLog.phase = "active"
                     THEN [gestureLog EXCEPT !.moved = TRUE, !.dirtyMarked = @ \/ marks]
                   ELSE gestureLog
  /\ windowLog' = Window(windowLog.muts + 1, windowLog.pure /\ ~suppressHash /\ ~skipNextHashWrite)
  /\ clearLog' = NoClear

\* History of a step that changes nothing the claims watch.
LogOther ==
  /\ writes' = writes
  /\ writeLog' = [writeLog EXCEPT !.suppressed = FALSE, !.echoed = FALSE, !.changed = FALSE]
  /\ windowLog' = Window(windowLog.muts, windowLog.pure)
  /\ clearLog' = clearLog

MarksDirty == ~skipNextHashWrite /\ suppressHash

\* The hash-sync effect runs: the signals it tracks changed since its last run.
EffectRun ==
  /\ effectDirty
  /\ effectDirty' = FALSE
  /\ IF readyForHashWrites
       THEN Scheduled(scheduleHashUpdate(skipNextHashWrite, readyForHashWrites, suppressHash,
                                         hashDirty, hashUpdateHandle))
       ELSE hashDirty' = TRUE /\ UNCHANGED << skipNextHashWrite, hashUpdateHandle >>
  /\ LogOther
  /\ gestureLog' = IF gestureLog.phase = "active" /\ gestureLog.moved /\ MarksDirty
                     THEN [gestureLog EXCEPT !.dirtyMarked = TRUE] ELSE gestureLog
  /\ raised' = FALSE
  /\ UNCHANGED << signals, nextId, lastSerializedHash, suppressHash, initialFitDone,
                  wheelFlushHandle, gest, location, hashchangeQueued, budget, sessionFixed >>

\* A timer callback that assigns the fragment whatever was written last.
writeAlways(prefixedHash, last) == TRUE

\* if (prefixedHash !== this.lastSerializedHash)
writeIfChanged(prefixedHash, last) == prefixedHash # last

\* The debounce timer fires: the callback of scheduleHashUpdate.
HashTimerFires ==
  /\ hashUpdateHandle
  /\ LET prefixedHash == CurrentPrefixed
         wrote == writeIfChanged(prefixedHash, lastSerializedHash)
     IN /\ location' = (IF wrote THEN prefixedHash ELSE location)
        /\ lastSerializedHash' = (IF wrote THEN prefixedHash ELSE lastSerializedHash)
        /\ hashchangeQueued' = (IF wrote /\ prefixedHash # location THEN hashchangeQueued + 1
                                ELSE hashchangeQueued)
        /\ writes' = (IF wrote THEN writes + 1 ELSE writes)
        /\ writeLog' = (IF wrote THEN [suppressed |-> suppressHash, intact |-> TRUE, echoed |-> FALSE,
                                      changed |-> FALSE]
                        ELSE [writeLog EXCEPT !.suppressed = FALSE, !.echoed = FALSE, !.changed = FALSE])
        /\ gestureLog' = (IF wrote /\ gestureLog.phase = "ended"
                            THEN [gestureLog EXCEPT !.writesAfter = @ + 1] ELSE gestureLog)
        /\ windowLog' = [muts |-> 0, pure |-> TRUE, fired |-> TRUE,
                         firedMuts |-> windowLog.muts,
                         firedPure |-> (windowLog.pure /\ ~effectDirty),
                         wrote |-> wrote, lastBefore |-> lastSerializedHash]
  /\ hashDirty' = FALSE
  /\ hashUpdateHandle' = FALSE
  /\ clearLog' = (IF writeIfChanged(CurrentPrefixed, lastSerializedHash)
                    THEN [clearLog EXCEPT !.writesAfter = @ + 1, !.written = CurrentPrefixed]
                  ELSE clearLog)
  /\ raised' = FALSE
  /\ UNCHANGED << signals, nextId, suppressHash, skipNextHashWrite, initialFitDone,
                  wheelFlushHandle, gest, effectDirty, budget, sessionFixed >>

\* The fragment is changed from outside: the user edits the address bar or
\* follows a link to the same page; the browser queues a hashchange event.
ExternalHashChange(h) ==
  /\ budget > 0
  /\ h # location
  /\ location' = h
  /\ hashchangeQueued' = hashchangeQueued + 1
  /\ budget' = budget - 1
  /\ writes' = writes
  /\ writeLog' = NoWrite
  /\ gestureLog' = NoGesture
  /\ windowLog' = Window(0, FALSE)
  /\ clearLog' = NoClear
  /\ UNCHANGED << signals, nextId, ctl, gest, effectDirty, raised, sessionFixed >>

\* An own write as the handler tells it: the fragment the state serialises
\* to now, and nothing else.
isOwnWriteByState(currentHash, currentPrefixed, last) == currentHash = currentPrefixed

\* if (currentHash === currentPrefixed || currentHash === this.lastSerializedHash) return
isOwnWrite(currentHash, currentPrefixed, last) ==
  currentHash = currentPrefixed \/ currentHash = last

\* No fragment is ever taken for a shorter one.
isShorterHashNever(currentHash, n, last) == FALSE

\* if (this.objects().length > 0 && currentHash.length < this.lastSerializedHash.length)
isShorterHash(currentHash, n, last) ==
  n > 0 /\ Len(currentHash) < Len(last)

\* The hashchange listener runs.
onHashChange ==
  /\ hashchangeQueued > 0
  /\ hashchangeQueued' = hashchangeQueued - 1
  /\ LET currentHash == location
         currentPrefixed == CurrentPrefixed
         branch == IF currentHash = << >> \/ currentHash = << "#" >> THEN "cleared"
                   ELSE IF isOwnWrite(currentHash, currentPrefixed, lastSerializedHash) THEN "own"
                   ELSE IF isShorterHash(currentHash, Len(objects), lastSerializedHash)
                     THEN "shorter"
                   ELSE "apply"
     IN /\ CASE branch = "cleared" ->
                  /\ lastSerializedHash' = << >>
                  /\ objects' = << >>
                  /\ selectedObjectId' = 0
                  /\ viewportX' = 0 /\ viewportY' = 0 /\ zoom' = Unit
                  /\ suppressHash' = FALSE
                  /\ hashDirty' = FALSE
                  /\ skipNextHashWrite' = TRUE
                  /\ effectDirty' = TRUE
                  /\ raised' = FALSE
                  /\ UNCHANGED << nextId, initialFitDone >>
             [] branch = "own" ->
                  /\ raised' = FALSE
                  /\ UNCHANGED << signals, nextId, lastSerializedHash, suppressHash, hashDirty,
                                  skipNextHashWrite, initialFitDone, effectDirty >>
             [] branch = "shorter" ->
                  /\ lastSerializedHash' = currentPrefixed
                  /\ raised' = FALSE
                  /\ UNCHANGED << signals, nextId, suppressHash, hashDirty, skipNextHashWrite,
                                  initialFitDone, effectDirty >>
             [] branch = "apply" ->
                  /\ Applied(applyHashState(currentHash, FALSE), currentHash)
                  /\ UNCHANGED << suppressHash, hashDirty, skipNextHashWrite >>
        /\ writeLog' = [writeLog EXCEPT !.suppressed = FALSE, !.echoed = writeLog.intact,
                                        !.changed = (signals' # signals)]
        /\ gestureLog' = (IF branch = "own" THEN gestureLog ELSE NoGesture)
        /\ windowLog' = Window(windowLog.muts, windowLog.pure /\ branch = "own")
        /\ clearLog' = (IF branch = "cleared" THEN [NoClear EXCEPT !.quiet = TRUE]
                        ELSE IF branch = "apply"
                          THEN (IF applyHashState(currentHash, FALSE).returned \in {"done", "doneRaise"}
                                  THEN [NoClear EXCEPT !.applied = TRUE, !.at = budget,
                                                       !.gesture = isDragging \/ isPanningCanvas]
                                ELSE NoClear)
                        ELSE clearLog)
  /\ UNCHANGED << writes, hashUpdateHandle, wheelFlushHandle, gest, location, budget,
                  sessionFixed >>

\* addObject(obj): the tail of every handler that creates an object.
addObject(obj) ==
  /\ objects' = Append(objects, obj)
  /\ selectedObjectId' = obj.id
  /\ Scheduled(scheduleHashUpdate(skipNextHashWrite, readyForHashWrites, suppressHash,
                                  hashDirty, hashUpdateHandle))
  /\ effectDirty' = TRUE

\* A URL is pasted; the new object lands at plane position (x, 0).
onPaste(url, x) ==
  /\ budget > 0
  /\ Len(objects) < MaxObjects
  /\ isValidUrl(url)
  /\ \E d \in {deriveSourceRef(localStorage, storageFails, storageFull, ephemeralTokens, url, NULL,
                                Stamp(nextId))} :
       /\ addObject([UrlObject(nextId, url, x, 0) EXCEPT !.sourceRef = d.ref])
       /\ localStorage' = d.ls /\ ephemeralTokens' = d.eph
  /\ nextId' = nextId + 1
  /\ budget' = budget - 1
  /\ LogMutation(MarksDirty)
  /\ raised' = FALSE
  /\ UNCHANGED << viewportX, viewportY, zoom, lastSerializedHash, suppressHash, initialFitDone,
                  wheelFlushHandle, gest, location, hashchangeQueued, storeFixed >>

\* Backspace with an object selected.
onKeyDown ==
  /\ budget > 0
  /\ selectedObjectId # 0
  /\ \E cleaned \in {IF \E i \in 1..Len(objects) : objects[i].id = selectedObjectId
                        THEN cleanupObjectStorage(localStorage, storageFails, ephemeralTokens,
                               objects[CHOOSE i \in 1..Len(objects) : objects[i].id = selectedObjectId])
                        ELSE [ls |-> localStorage, eph |-> ephemeralTokens]} :
       localStorage' = cleaned.ls /\ ephemeralTokens' = cleaned.eph
  /\ objects' = SelectSeq(objects, LAMBDA o : o.id # selectedObjectId)
  /\ selectedObjectId' = 0
  /\ effectDirty' = TRUE
  /\ budget' = budget - 1
  /\ LogMutation(FALSE)
  /\ raised' = FALSE
  /\ UNCHANGED << viewportX, viewportY, zoom, nextId, ctl, gest, location, hashchangeQueued,
                  storeFixed >>

toggleDisplayMode(objectId) ==
  /\ budget > 0
  /\ \E i \in 1..Len(objects) :
       /\ objects[i].id = objectId
       /\ objects[i].type = IFRAME
       /\ Truthy(objects[i].ogImage)
       /\ objects' = [objects EXCEPT ![i].displayMode = IF @ = IFRAME THEN IMAGE ELSE IFRAME]
  /\ Scheduled(scheduleHashUpdate(skipNextHashWrite, readyForHashWrites, suppressHash,
                                  hashDirty, hashUpdateHandle))
  /\ effectDirty' = TRUE
  /\ budget' = budget - 1
  /\ LogMutation(MarksDirty)
  /\ raised' = FALSE
  /\ UNCHANGED << viewportX, viewportY, zoom, selectedObjectId, nextId, lastSerializedHash,
                  suppressHash, initialFitDone, wheelFlushHandle, gest, location,
                  hashchangeQueued, sessionFixed >>

\* History: a mouse gesture starts.
LogGestureStart ==
  /\ LogOther
  /\ gestureLog' = [NoGesture EXCEPT !.phase = "active"]

\* History: a mouse gesture ends.
LogGestureEnd ==
  /\ LogOther
  /\ gestureLog' = IF gestureLog.phase = "none" THEN NoGesture ELSE
                   [gestureLog EXCEPT !.phase = "ended",
                                      !.dirtyAtEnd = hashDirty,
                                      !.pendingAtEnd = hashUpdateHandle \/ effectDirty \/ wheelFlushHandle,
                                      !.endEnc = CurrentPrefixed,
                                      !.lastAtEnd = lastSerializedHash]

\* The mousedown half of onObjectMouseDown.
onObjectMouseDown(objectId) ==
  /\ budget > 0
  /\ ~isDragging /\ ~isPanningCanvas
  /\ \E i \in 1..Len(objects) : objects[i].id = objectId
  /\ isDragging' = TRUE
  /\ suppressHash' = TRUE
  /\ dragTarget' = objectId
  /\ selectedObjectId' = objectId
  /\ budget' = budget - 1
  /\ LogGestureStart
  /\ raised' = FALSE
  /\ UNCHANGED << viewportX, viewportY, zoom, objects, nextId, lastSerializedHash,
                  hashUpdateHandle, hashDirty, skipNextHashWrite, initialFitDone,
                  wheelFlushHandle, isPanningCanvas, effectDirty, location, hashchangeQueued,
                  sessionFixed >>

\* onMouseMove of a drag: the pointer moved, the dragged object is at plane x.
ObjectMouseMove(x) ==
  /\ budget > 0
  /\ isDragging
  /\ \A i \in 1..Len(objects) : objects[i].id = dragTarget => objects[i].x # x
  /\ objects' = [i \in 1..Len(objects) |->
                   IF objects[i].id = dragTarget THEN [objects[i] EXCEPT !.x = x] ELSE objects[i]]
  /\ effectDirty' = TRUE
  /\ budget' = budget - 1
  /\ LogMutation(FALSE)
  /\ raised' = FALSE
  /\ UNCHANGED << viewportX, viewportY, zoom, selectedObjectId, nextId, ctl, gest, location,
                  hashchangeQueued, sessionFixed >>

\* onMouseUp of a drag.
ObjectMouseUp ==
  /\ isDragging
  /\ isDragging' = FALSE
  /\ suppressHash' = FALSE
  /\ Scheduled(flushIfDirty(skipNextHashWrite, readyForHashWrites, hashDirty, hashUpdateHandle))
  /\ LogGestureEnd
  /\ raised' = FALSE
  /\ UNCHANGED << signals, nextId, lastSerializedHash, initialFitDone, wheelFlushHandle,
                  isPanningCanvas, dragTarget, effectDirty, location, hashchangeQueued, budget,
                  sessionFixed >>

\* The mousedown half of onCanvasMouseDown, on the canvas background.
onCanvasMouseDown ==
  /\ budget > 0
  /\ ~isDragging /\ ~isPanningCanvas
  /\ suppressHash' = TRUE
  /\ selectedObjectId' = 0
  /\ isPanningCanvas' = TRUE
  /\ budget' = budget - 1
  /\ LogGestureStart
  /\ raised' = FALSE
  /\ UNCHANGED << viewportX, viewportY, zoom, objects, nextId, lastSerializedHash,
                  hashUpdateHandle, hashDirty, skipNextHashWrite, initialFitDone,
                  wheelFlushHandle, isDragging, dragTarget, effectDirty, location,
                  hashchangeQueued, sessionFixed >>

\* onMouseMove of a pan: the pointer moved, the viewport is at x.
CanvasMouseMove(x) ==
  /\ budget > 0
  /\ isPanningCanvas
  /\ x # viewportX
  /\ viewportX' = x
  /\ effectDirty' = TRUE
  /\ budget' = budget - 1
  /\ LogMutation(FALSE)
  /\ raised' = FALSE
  /\ UNCHANGED << viewportY, zoom, objects, selectedObjectId, nextId, ctl, gest, location,
                  hashchangeQueued, sessionFixed >>

\* onMouseUp of a pan.
CanvasMouseUp ==
  /\ isPanningCanvas
  /\ isPanningCanvas' = FALSE
  /\ suppressHash' = FALSE
  /\ Scheduled(flushIfDirty(skipNextHashWrite, readyForHashWrites, hashDirty, hashUpdateHandle))
  /\ LogGestureEnd
  /\ raised' = FALSE
  /\ UNCHANGED << signals, nextId, lastSerializedHash, initialFitDone, wheelFlushHandle,
                  isDragging, dragTarget, effectDirty, location, hashchangeQueued, budget,
                  sessionFixed >>

\* A wheel event with the pointer over the plane origin (canvasX = canvasY = 0,
\* so the viewport offsets keep their values); f is zoomFactor in tenths.
onWheel(f) ==
  /\ budget > 0
  /\ suppressHash' = TRUE
  /\ zoom' = ClampZoom((zoom * f) \div 10)
  /\ effectDirty' = (effectDirty \/ zoom' # zoom)
  /\ wheelFlushHandle' = TRUE
  /\ budget' = budget - 1
  /\ writes' = writes
  /\ writeLog' = [writeLog EXCEPT !.suppressed = FALSE, !.echoed = FALSE, !.changed = FALSE]
  /\ gestureLog' = NoGesture
  /\ windowLog' = Window(0, FALSE)
  /\ clearLog' = NoClear
  /\ raised' = FALSE
  /\ UNCHANGED << viewportX, viewportY, objects, selectedObjectId, nextId, lastSerializedHash,
                  hashUpdateHandle, hashDirty, skipNextHashWrite, initialFitDone, gest,
                  location, hashchangeQueued, sessionFixed >>

\* The wheel flush timer fires.
WheelFlushFires ==
  /\ wheelFlushHandle
  /\ suppressHash' = FALSE
  /\ Scheduled(flushIfDirty(skipNextHashWrite, readyForHashWrites, hashDirty, hashUpdateHandle))
  /\ wheelFlushHandle' = FALSE
  /\ LogOther
  /\ gestureLog' = gestureLog
  /\ raised' = FALSE
  /\ UNCHANGED << signals, nextId, lastSerializedHash, initialFitDone, gest, effectDirty,
                  location, hashchangeQueued, budget, sessionFixed >>

Next ==
  \/ EffectRun
  \/ HashTimerFires
  \/ WheelFlushFires
  \/ onHashChange
  \/ \E h \in ExtHashes : ExternalHashChange(h)
  \/ onPaste(U1, 0)
  \/ onKeyDown
  \/ \E i \in 1..Len(objects) : toggleDisplayMode(objects[i].id)
  \/ \E i \in 1..Len(objects) : onObjectMouseDown(objects[i].id)
  \/ \E x \in PlaneXs : ObjectMouseMove(x)
  \/ ObjectMouseUp
  \/ onCanvasMouseDown
  \/ \E x \in PanXs : CanvasMouseMove(x)
  \/ CanvasMouseUp
  \/ \E f \in ZoomFactors : onWheel(f)

Spec == Init /\ [][Next]_vars

\* ------------------------------------------------------------------------
\* Properties of the controller
\* ------------------------------------------------------------------------

\* No timer is pending and no effect is scheduled.
Idle == ~hashUpdateHandle /\ ~effectDirty /\ ~wheelFlushHandle

\* C3: no location write happens in a state where suppressHash is true.
C3_NoWriteWhileSuppressed == ~writeLog.suppressed

\* C4 as stated: a gesture that ends after a change was marked dirty under
\* suppression is followed by exactly one location write, of the encoding of
\* the state at gesture end; when nothing was dirty and nothing was pending
\* at the end, no write follows.
C4_ExactlyOneFlush ==
  (gestureLog.phase = "ended" /\ Idle) =>
    /\ gestureLog.dirtyMarked =>
         gestureLog.writesAfter = 1 /\ location = gestureLog.endEnc
    /\ (~gestureLog.dirtyAtEnd /\ ~gestureLog.pendingAtEnd) => gestureLog.writesAfter = 0

\* C4, amended: after such a gesture the controller's record of the fragment
\* is the encoding of the state at gesture end; one write of that encoding
\* follows when it differs from the record at gesture end, none otherwise;
\* when nothing was dirty and nothing was pending at the end, no write follows.
C4_FlushIfChanged ==
  (gestureLog.phase = "ended" /\ Idle) =>
    /\ gestureLog.dirtyMarked =>
         /\ lastSerializedHash = gestureLog.endEnc
         /\ gestureLog.writesAfter = (IF gestureLog.endEnc # gestureLog.lastAtEnd THEN 1 ELSE 0)
         /\ gestureLog.writesAfter = 1 => location = gestureLog.endEnc
    /\ (~gestureLog.dirtyAtEnd /\ ~gestureLog.pendingAtEnd) => gestureLog.writesAfter = 0

\* C4 witness: a gesture that marked a change dirty has ended and its single
\* flush write has been made.
C4_Witness ==
  /\ gestureLog.phase = "ended" /\ Idle
  /\ gestureLog.dirtyMarked
  /\ gestureLog.writesAfter = 1
  /\ location = gestureLog.endEnc

\* C5 as stated: N >= 1 mutations scheduled in one throttle window while not
\* suppressed give exactly one location write when the timer fires, of the
\* encoding of the state after the last of them.
C5_ExactlyOneWrite ==
  (windowLog.fired /\ windowLog.firedMuts >= 1 /\ windowLog.firedPure) =>
    windowLog.wrote /\ location = CurrentPrefixed

\* C5, amended: such a window ends with at most one location write; the
\* write is made exactly when the encoding of the state after the last
\* mutation differs from the fragment recorded as written last, and it is
\* that encoding.
C5_OneWriteIfChanged ==
  (windowLog.fired /\ windowLog.firedMuts >= 1 /\ windowLog.firedPure) =>
    /\ lastSerializedHash = CurrentPrefixed
    /\ windowLog.wrote = (CurrentPrefixed # windowLog.lastBefore)
    /\ windowLog.wrote => location = CurrentPrefixed

\* C5 witness: a throttle window with two mutations has fired and written.
C5_Witness ==
  /\ windowLog.fired /\ windowLog.firedMuts >= 2 /\ windowLog.firedPure
  /\ windowLog.wrote
  /\ location = CurrentPrefixed

\* C6: a hashchange handled while the location still holds the fragment the
\* controller wrote last changes neither viewport, objects (ids included)
\* nor selection.
C6_EchoIgnored == writeLog.echoed => ~writeLog.changed

\* C6 witness: an echo was handled while the live state had an object, a
\* selection and an encoding other than the location.
C6_Witness ==
  /\ writeLog.echoed
  /\ location # CurrentPrefixed
  /\ Len(objects) > 0 /\ selectedObjectId # 0

\* C8: after the fragment was cleared from outside, objects are empty, the
\* viewport is (0, 0, 1) and the location stays empty until the user changes
\* the scene.
C8_ClearedStaysEmpty ==
  clearLog.quiet =>
    /\ location = << >>
    /\ objects = << >>
    /\ viewportX = 0 /\ viewportY = 0 /\ zoom = Unit

\* C9: once nothing is pending (no timer, no effect, no hashchange, no
\* gesture), the location holds the encoding of the live state, or it is
\* empty and the state is the empty scene at the default viewport.
C9_QuietIsConsistent ==
  (Idle /\ hashchangeQueued = 0 /\ ~isDragging /\ ~isPanningCanvas) =>
    \/ location = CurrentPrefixed
    \/ /\ location = << >>
       /\ objects = << >>
       /\ viewportX = 0 /\ viewportY = 0 /\ zoom = Unit

\* ------------------------------------------------------------------------
\* Decode on its own: a fragment arrives at a session with a content store
\* ------------------------------------------------------------------------

\* A data URL payload, the token it is stored under and a dropped file's name.
Payload == << "d", "a", "t", "a", ":", "x" >>

Token1 == dataTokenPrefix \o << "1" >>

File1 == << "f", ".", "p", "n", "g" >>

\* Content stores: [ls, fails, eph].  Empty; the payload in durable storage
\* under the token and under the file key; durable storage throwing, the
\* payload in the in-memory token map.
DecodeStores ==
  { [ls |-> << >>, fails |-> FALSE, eph |-> << >>],
    [ls |-> (Token1 :> Payload) @@ (makeFileKey(File1) :> Payload), fails |-> FALSE, eph |-> << >>],
    [ls |-> << >>, fails |-> TRUE, eph |-> (Token1 :> Payload)] }

\* Objects of the scenes that are encoded: a pasted URL, an image with a
\* preview, a dropped image held by token.
DecodeObjects ==
  { UrlObject(0, U1, 123456, -70000),
    CodecObject(IMAGE, U2, -123455, 1000000, 1234567, 925925, 455000, OG1, IFRAME),
    CodecObject(IMAGE, TOKEN \o Token1, 10000, 20000, 400 * Unit, 300 * Unit, 0, NULL, IMAGE) }

DecodeScenes == Lists(DecodeObjects, MaxSceneLen) \ { << >> }

\* The segments of an encoded fragment, the canvas segment first.
SegmentsOf(f) == Split(Sub(f, 2, Len(f)), "#")

\* ref/x,y,scale,rotation/flags with the transform block cut to x,y,scale.
TruncateTransform(segment) ==
  Bind(ScanSegment(segment), LAMBDA sc :
    sc.encodedRef \o << "/" >> \o Join(SubSeq(Split(sc.transformPart, ","), 1, 3), ",")
                  \o << "/" >> \o sc.flagsPart)

\* Fragment f with the transform block of its segment k truncated.
Truncated(f, k) ==
  Bind(SegmentsOf(f), LAMBDA segs :
    << "#" >> \o Join([i \in 1..Len(segs) |->
                         IF i = k THEN TruncateTransform(segs[i]) ELSE segs[i]], "#"))

\* Fragment f without its segment k.
Removed(f, k) ==
  Bind(SegmentsOf(f), LAMBDA segs :
    << "#" >> \o Join(SubSeq(segs, 1, k - 1) \o SubSeq(segs, k + 1, Len(segs)), "#"))

EncodedScene(scene) == << "#" >> \o serializeStateToHash(14, -70000, 12500, scene)

\* an image held by a token: #token%3Adata-token-1/1,2,1,0/type:image,ratio:0.5
FragTokenImage == << "#", "t", "o", "k", "e", "n", "%", "3", "A", "d", "a", "t", "a", "-", "t", "o", "k", "e", "n", "-", "1", "/", "1", ",", "2", ",", "1", ",", "0", "/", "t", "y", "p", "e", ":", "i", "m", "a", "g", "e", ",", "r", "a", "t", "i", "o", ":", "0", ".", "5" >>

\* an image held by file name: #f.png/1,2,1,0/type:image
FragFileImage == << "#", "f", ".", "p", "n", "g", "/", "1", ",", "2", ",", "1", ",", "0", "/", "t", "y", "p", "e", ":", "i", "m", "a", "g", "e" >>

\* an iframe whose reference is no URL, between two segments that are fine:
\* #token%3Adata-token-1/1,2,1,0/type:image#nourl/1,2,1,0/type:iframe#http%3A%2F%2Fa.b/5,6,1,0/type:iframe
FragBadIframe == << "#", "t", "o", "k", "e", "n", "%", "3", "A", "d", "a", "t", "a", "-", "t", "o", "k", "e", "n", "-", "1", "/", "1", ",", "2", ",", "1", ",", "0", "/", "t", "y", "p", "e", ":", "i", "m", "a", "g", "e", "#", "n", "o", "u", "r", "l", "/", "1", ",", "2", ",", "1", ",", "0", "/", "t", "y", "p", "e", ":", "i", "f", "r", "a", "m", "e", "#", "h", "t", "t", "p", "%", "3", "A", "%", "2", "F", "%", "2", "F", "a", ".", "b", "/", "5", ",", "6", ",", "1", ",", "0", "/", "t", "y", "p", "e", ":", "i", "f", "r", "a", "m", "e" >>

\* an iframe held by an unknown token: #token%3Azz/1,2,1,0/type:iframe
FragTokenIframe == << "#", "t", "o", "k", "e", "n", "%", "3", "A", "z", "z", "/", "1", ",", "2", ",", "1", ",", "0", "/", "t", "y", "p", "e", ":", "i", "f", "r", "a", "m", "e" >>

\* a segment repeated after another one: #a/1,2,1,0/x#b/1,2,1,0/x#a/1,2,1,0/x
FragRepeat == << "#", "a", "/", "1", ",", "2", ",", "1", ",", "0", "/", "x", "#", "b", "/", "1", ",", "2", ",", "1", ",", "0", "/", "x", "#", "a", "/", "1", ",", "2", ",", "1", ",", "0", "/", "x" >>

\* segments that differ in one part each: #a/1,2,1,0/x#b/1,2,1,0/x#a/1,2,1,5/x#a/1,2,1,0/y
FragDiffer == << "#", "a", "/", "1", ",", "2", ",", "1", ",", "0", "/", "x", "#", "b", "/", "1", ",", "2", ",", "1", ",", "0", "/", "x", "#", "a", "/", "1", ",", "2", ",", "1", ",", "5", "/", "x", "#", "a", "/", "1", ",", "2", ",", "1", ",", "0", "/", "y" >>

\* segments that differ in transform block and flags: #a/1,2,3,4|b/c#a/1,2,3,4/b|c
FragPipe == << "#", "a", "/", "1", ",", "2", ",", "3", ",", "4", "|", "b", "/", "c", "#", "a", "/", "1", ",", "2", ",", "3", ",", "4", "/", "b", "|", "c" >>

\* no segment at all: ##
FragNoSegments == << "#", "#" >>

\* scale 0 and ratio 0: #http%3A%2F%2Fa.b/1,2,0,0/type:iframe,ratio:0
FragZeroScale == << "#", "h", "t", "t", "p", "%", "3", "A", "%", "2", "F", "%", "2", "F", "a", ".", "b", "/", "1", ",", "2", ",", "0", ",", "0", "/", "t", "y", "p", "e", ":", "i", "f", "r", "a", "m", "e", ",", "r", "a", "t", "i", "o", ":", "0" >>

\* a negative scale: #http%3A%2F%2Fa.b/1,2,-1.5,0/type:iframe
FragNegScale == << "#", "h", "t", "t", "p", "%", "3", "A", "%", "2", "F", "%", "2", "F", "a", ".", "b", "/", "1", ",", "2", ",", "-", "1", ".", "5", ",", "0", "/", "t", "y", "p", "e", ":", "i", "f", "r", "a", "m", "e" >>

\* a type flag that names no kind: #http%3A%2F%2Fa.b/1,2,1,0/type:video
FragUnknownType == << "#", "h", "t", "t", "p", "%", "3", "A", "%", "2", "F", "%", "2", "F", "a", ".", "b", "/", "1", ",", "2", ",", "1", ",", "0", "/", "t", "y", "p", "e", ":", "v", "i", "d", "e", "o" >>

\* no type flag, an unknown key, a ratio that is no number:
\* #http%3A%2F%2Fa.b/1,2,1.5,0/foo:bar,ratio:x
FragNoType == << "#", "h", "t", "t", "p", "%", "3", "A", "%", "2", "F", "%", "2", "F", "a", ".", "b", "/", "1", ",", "2", ",", "1", ".", "5", ",", "0", "/", "f", "o", "o", ":", "b", "a", "r", ",", "r", "a", "t", "i", "o", ":", "x" >>

\* a ratio and an unknown key: #http%3A%2F%2Fa.b/1,2,2,0/type:iframe,ratio:0.5,zz:1
FragRatio == << "#", "h", "t", "t", "p", "%", "3", "A", "%", "2", "F", "%", "2", "F", "a", ".", "b", "/", "1", ",", "2", ",", "2", ",", "0", "/", "t", "y", "p", "e", ":", "i", "f", "r", "a", "m", "e", ",", "r", "a", "t", "i", "o", ":", "0", ".", "5", ",", "z", "z", ":", "1" >>

\* no flags at all: #http%3A%2F%2Fa.b/1,2,2,0/
FragNoFlags == << "#", "h", "t", "t", "p", "%", "3", "A", "%", "2", "F", "%", "2", "F", "a", ".", "b", "/", "1", ",", "2", ",", "2", ",", "0", "/" >>

\* Fragments of one well-formed object segment that leave flags to their defaults.
DefaultFragments == { FragUnknownType, FragNoType, FragRatio, FragNoFlags }

DecodeHandFragments ==
  { FragTokenImage, FragFileImage, FragBadIframe, FragTokenIframe, FragRepeat, FragDiffer,
    FragPipe, FragNoSegments, FragZeroScale, FragNegScale }
  \cup DefaultFragments

\* What arrives: [frag, from, orig, k].  A hand-written fragment, an encoded
\* scene, or an encoded scene (orig) with object segment k truncated.
DecodeInputs ==
  { [frag |-> h, from |-> "hand", orig |-> h, k |-> 0] : h \in DecodeHandFragments }
  \cup { [frag |-> EncodedScene(s), from |-> "encode", orig |-> EncodedScene(s), k |-> 0] :
           s \in DecodeScenes }
  \cup UNION { { [frag |-> Truncated(EncodedScene(s), k), from |-> "truncated",
                  orig |-> EncodedScene(s), k |-> k] : k \in 2..(Len(s) + 1) } :
               s \in DecodeScenes }

\* Object lists a session can hold when the fragment arrives.
PriorLists == { << >>, << UrlObject(1, U1, 0, 0) >> }

InitDecode ==
  /\ pc = "fresh"
  /\ \E in \in DecodeInputs :
       \E v \in PriorViews :
         /\ frag = in.frag
         /\ viewportX = v.x /\ viewportY = v.y /\ zoom = v.zoom
         /\ srcView = [x |-> v.x, y |-> v.y, zoom |-> v.zoom, from |-> in.from,
                       orig |-> in.orig, k |-> in.k, first |-> << >>]
  /\ \E l \in PriorLists :
       /\ objects = l /\ srcObjects = l /\ nextId = Len(l) + 1
  /\ \E st \in DecodeStores :
       localStorage = st.ls /\ storageFails = st.fails /\ ephemeralTokens = st.eph
  /\ storageFull = FALSE
  /\ selectedObjectId = 0
  /\ lastSerializedHash = << >> /\ hashUpdateHandle = FALSE /\ suppressHash = FALSE
  /\ hashDirty = FALSE /\ skipNextHashWrite = FALSE /\ readyForHashWrites = TRUE
  /\ initialFitDone = FALSE /\ restoredFromHash = TRUE /\ wheelFlushHandle = FALSE
  /\ isDragging = FALSE /\ isPanningCanvas = FALSE /\ dragTarget = 0
  /\ viewAnimation = NoAnimation
  /\ effectDirty = FALSE /\ location = << >> /\ hashchangeQueued = 0
  /\ raised = FALSE
  /\ writes = 0 /\ writeLog = << >> /\ gestureLog = << >> /\ windowLog = << >>
  /\ clearLog = << >> /\ budget = 0

\* applyHashState(frag) on the session as it was when the fragment arrived.
DecodeFirst ==
  /\ pc = "fresh"
  /\ Applied(applyHashState(frag, TRUE), << >>)
  /\ srcView' = [srcView EXCEPT !.first = objects']
  /\ pc' = "decoded"
  /\ UNCHANGED << frag, srcObjects, codecFixed >>

\* applyHashState(frag) once more, nothing changed in between.
DecodeAgain ==
  /\ pc = "decoded"
  /\ Applied(applyHashState(frag, TRUE), << >>)
  /\ pc' = "decodedTwice"
  /\ UNCHANGED << codecIo, codecFixed >>

NextDecode == DecodeFirst \/ DecodeAgain

SpecDecode == InitDecode /\ [][NextDecode]_vars

\* ------------------------------------------------------------------------
\* Properties of decode
\* ------------------------------------------------------------------------

\* What decoding fragment f from the state the run started in gives.
DecodeFromPrior(f) ==
  DecodeHash(localStorage, storageFails, ephemeralTokens, f, srcView.x, srcView.y, srcView.zoom)

\* C11: decoding an encoded fragment with the transform block of one object
\* segment truncated to 3 numbers does not raise and gives the viewport and
\* the object list that decoding the fragment without that segment gives.
C11_TruncatedAsRemoved ==
  (pc = "decoded" /\ srcView.from = "truncated") =>
    Bind(DecodeFromPrior(Removed(srcView.orig, srcView.k)), LAMBDA alt :
      /\ ~raised /\ ~alt.raise /\ ~alt.early
      /\ objects = WithIds(alt.objs, Len(srcObjects) + 1)
      /\ viewportX = alt.vx /\ viewportY = alt.vy /\ zoom = alt.vz)

\* C11 witness: of two different object segments the first was truncated and
\* the decode gave the object of the second one only.
C11_Witness ==
  /\ pc = "decoded" /\ srcView.from = "truncated" /\ srcView.k = 2
  /\ Len(SegmentsOf(srcView.orig)) = 3
  /\ SegmentsOf(srcView.orig)[2] # SegmentsOf(srcView.orig)[3]
  /\ Len(objects) = 1
  /\ objects[1].sourceRef = U2

\* C12: two segments with the same (encoded reference, transform block,
\* flags) text give one object, at the place of the first; segments that
\* differ in one of the three parts each give their own object.
C12_Dedup ==
  pc = "decoded" =>
    /\ frag = FragRepeat =>
         /\ Len(objects) = 2
         /\ objects[1].sourceRef = << "a" >> /\ objects[2].sourceRef = << "b" >>
    /\ frag = FragDiffer => Len(objects) = 4
    /\ frag = FragPipe => Len(objects) = 2

\* The token and the file of the hand-written fragments resolve in the store.
TokenKnown ==
  (~storageFails /\ Token1 \in DOMAIN localStorage) \/ Token1 \in DOMAIN ephemeralTokens

FileKnown == ~storageFails /\ makeFileKey(File1) \in DOMAIN localStorage

C14_IframeDropped ==
  pc = "decoded" =>
    /\ frag = FragBadIframe =>
         /\ ~raised /\ Len(objects) = 2
         /\ objects[1].type = IMAGE /\ objects[1].sourceRef = TOKEN \o Token1
         /\ objects[2].type = IFRAME /\ objects[2].sourceRef = U1
    /\ frag = FragTokenIframe => ~raised /\ objects = << >>

\* C14 witness: the fragment with the bad iframe between two good segments
\* replaced a list of one object by the two good ones.
C14_Witness ==
  /\ pc = "decoded" /\ frag = FragBadIframe
  /\ Len(srcObjects) = 1 /\ Len(objects) = 2
  /\ objects[2].content = U1

\* A list of objects without their ids.
StripIds(objs) ==
  [i \in 1..Len(objs) |-> [f \in (DOMAIN objs[i]) \ {"id"} |-> objs[i][f]]]

\* C15: applying a fragment replaces the object list whatever it was (no
\* object of the prior list is left), and applying it a second time gives
\* the same list up to ids.
C15_FullReplaceIdempotent ==
  /\ pc \in {"decoded", "decodedTwice"} =>
       \A i \in 1..Len(objects) : objects[i].id > Len(srcObjects)
  /\ pc = "decodedTwice" => StripIds(objects) = StripIds(srcView.first)

\* ------------------------------------------------------------------------
\* The view: fit to content, view animation, pinch
\* ------------------------------------------------------------------------

\* window.innerWidth and window.innerHeight of a desktop window, in px.
innerWidth == 1200

innerHeight == 800

safeInsetTop == 20

safeInsetBottom == 100

safeInsetLeft == 20

safeInsetRight == 20

\* num / den in ten-thousandths for num >= 0 and den > 0, by long division so
\* that no intermediate value leaves the 32-bit integers.
Quotient(num, den) ==
  LET r0 == num % den
      r1 == (10 * r0) % den
      r2 == (10 * r1) % den
      r3 == (10 * r2) % den
  IN Unit * (num \div den) + 1000 * ((10 * r0) \div den) + 100 * ((10 * r1) \div den)
       + 10 * ((10 * r2) \div den) + (10 * r3) \div den

getVisibleViewportMetrics ==
  Bind(Max({0, innerWidth - safeInsetLeft - safeInsetRight}) * Unit, LAMBDA width :
  Bind(Max({0, innerHeight - safeInsetTop - safeInsetBottom}) * Unit, LAMBDA height :
    [width |-> width, height |-> height,
     centerX |-> safeInsetLeft * Unit + width \div 2,
     centerY |-> safeInsetTop * Unit + height \div 2]))

\* The box around the corners of all objects; the objects are not rotated, so
\* the corners of one are (x, y) and (x + width, y + height).  objs is not empty.
calculateCompositionBounds(objs) ==
  Bind(Min({ objs[i].x : i \in 1..Len(objs) }), LAMBDA minX :
  Bind(Min({ objs[i].y : i \in 1..Len(objs) }), LAMBDA minY :
    [x |-> minX, y |-> minY,
     width |-> Max({ objs[i].x + objs[i].width : i \in 1..Len(objs) }
                   \cup { objs[i].x : i \in 1..Len(objs) }) - minX,
     height |-> Max({ objs[i].y + objs[i].height : i \in 1..Len(objs) }
                    \cup { objs[i].y : i \in 1..Len(objs) }) - minY]))

\* Math.min(available / extent, this.maxZoom) for available >= 0, extent >= 0
\* and not both 0; the quotient is taken only where it is below maxZoom.
FitZoom(available, extent) ==
  IF (maxZoom \div Unit) * extent <= available THEN maxZoom ELSE Quotient(available, extent)

\* padding is 40 (isMobile is false).
computeFitToViewTargets(objs) ==
  IF objs = << >> THEN [zoom |-> Unit, viewportX |-> 0, viewportY |-> 0]
  ELSE
    Bind(calculateCompositionBounds(objs), LAMBDA bounds :
    Bind(getVisibleViewportMetrics, LAMBDA m :
    Bind(Min({ FitZoom(Max({0, m.width - 2 * 40 * Unit}), bounds.width),
               FitZoom(Max({0, m.height - 2 * 40 * Unit}), bounds.height) }), LAMBDA newZoom :
      [zoom |-> newZoom,
       viewportX |-> m.centerX - Times(bounds.x + bounds.width \div 2, newZoom),
       viewportY |-> m.centerY - Times(bounds.y + bounds.height \div 2, newZoom)])))

\* The signals take the view v = [zoom, viewportX, viewportY]; the effect that
\* tracks them is scheduled when one of them changed.
ViewSet(v) ==
  /\ zoom' = v.zoom /\ viewportX' = v.viewportX /\ viewportY' = v.viewportY
  /\ effectDirty' = (effectDirty \/ << v.zoom, v.viewportX, v.viewportY >> # << zoom, viewportX, viewportY >>)

\* What a step on the view leaves alone.
viewFixed == << objects, selectedObjectId, nextId, ctl, gest, location, hashchangeQueued,
                store, pc, codecIo >>

fitToView ==
  /\ budget > 0
  /\ ViewSet(computeFitToViewTargets(objects))
  /\ budget' = budget - 1
  /\ LogMutation(FALSE)
  /\ raised' = FALSE
  /\ UNCHANGED << viewAnimation, viewFixed >>

\* animateToView from the view start to the view target: the first frame is requested.
animateToView(start, target) ==
  viewAnimation' = [active |-> TRUE, eased |-> 0, startZoom |-> start.zoom, startX |-> start.viewportX,
                    startY |-> start.viewportY, targetZoom |-> target.zoom,
                    targetX |-> target.viewportX, targetY |-> target.viewportY]

\* animateFitToContent(skipAppear) over a list that is not empty: the appear
\* position, then the animation from there.
animateFitToContent(skipAppear) ==
  \E targets \in {computeFitToViewTargets(objects)} :
    \E from \in {IF skipAppear THEN [zoom |-> zoom, viewportX |-> viewportX, viewportY |-> viewportY]
                 ELSE Bind(calculateCompositionBounds(objects), LAMBDA bounds :
                   [zoom |-> targets.zoom \div 2,
                    viewportX |-> 0 - Times(bounds.width, targets.zoom),
                    viewportY |-> getVisibleViewportMetrics.centerY
                                    - Times(bounds.y + bounds.height \div 2, targets.zoom) \div 2])} :
      /\ ViewSet(from)
      /\ animateToView(from, targets)

\* The user picks the app 'centered'.
onAppChange ==
  /\ budget > 0
  /\ objects # << >>
  /\ objects' = SelectSeq(objects, LAMBDA o : ~o.isFrameObject)
  /\ animateFitToContent(TRUE)
  /\ budget' = budget - 1
  /\ LogMutation(FALSE)
  /\ raised' = FALSE
  /\ UNCHANGED << selectedObjectId, nextId, ctl, gest, location, hashchangeQueued, store, pc, codecIo >>

\* Values of easeOutCubic(progress) at the frames of an animation: 0.5 on
\* the way and 1 at the end.
Easings == { 5000, Unit }

\* One frame of the view animation; progress grows from frame to frame, and
\* so does eased.
AnimationFrame(eased) ==
  /\ viewAnimation.active
  /\ eased > viewAnimation.eased
  /\ ViewSet([zoom |-> viewAnimation.startZoom + Times(viewAnimation.targetZoom - viewAnimation.startZoom, eased),
              viewportX |-> viewAnimation.startX + Times(viewAnimation.targetX - viewAnimation.startX, eased),
              viewportY |-> viewAnimation.startY + Times(viewAnimation.targetY - viewAnimation.startY, eased)])
  /\ viewAnimation' = IF eased < Unit THEN [viewAnimation EXCEPT !.eased = eased] ELSE NoAnimation
  /\ LogMutation(FALSE)
  /\ raised' = FALSE
  /\ UNCHANGED << budget, viewFixed >>

\* currentDistance / touchStartDistance of a pinch, in hundredths.
PinchScales == { 1, 300 }

\* Two fingers go down and move: onTouchStart, then onTouchMove with the
\* midpoint over the plane origin (canvasX = canvasY = 0).
onTouchMove(scale) ==
  /\ budget > 0
  /\ suppressHash' = TRUE
  /\ ViewSet([zoom |-> ClampZoom((zoom * scale) \div 100), viewportX |-> viewportX, viewportY |-> viewportY])
  /\ budget' = budget - 1
  /\ LogMutation(FALSE)
  /\ raised' = FALSE
  /\ UNCHANGED << objects, selectedObjectId, nextId, lastSerializedHash, hashUpdateHandle, hashDirty,
                  skipNextHashWrite, readyForHashWrites, initialFitDone, restoredFromHash,
                  wheelFlushHandle, gest, viewAnimation, location, hashchangeQueued, store, pc, codecIo >>

\* The last finger of a pinch lifts.
onTouchEnd ==
  /\ suppressHash
  /\ ~wheelFlushHandle /\ ~isDragging /\ ~isPanningCanvas
  /\ suppressHash' = FALSE
  /\ Scheduled(flushIfDirty(skipNextHashWrite, readyForHashWrites, hashDirty, hashUpdateHandle))
  /\ LogOther
  /\ gestureLog' = gestureLog
  /\ raised' = FALSE
  /\ UNCHANGED << signals, nextId, lastSerializedHash, readyForHashWrites, initialFitDone,
                  restoredFromHash, wheelFlushHandle, gest, viewAnimation, effectDirty, location,
                  hashchangeQueued, store, pc, codecIo, budget >>

\* two embedded pages 12000 px apart: #http%3A%2F%2Fa.b/0,0,3,0/type:iframe#http%3A%2F%2Fa.b/12000,0,3,0/type:iframe
FragApart == << "#", "h", "t", "t", "p", "%", "3", "A", "%", "2", "F", "%", "2", "F", "a", ".", "b", "/", "0", ",", "0", ",", "3", ",", "0", "/", "t", "y", "p", "e", ":", "i", "f", "r", "a", "m", "e", "#", "h", "t", "t", "p", "%", "3", "A", "%", "2", "F", "%", "2", "F", "a", ".", "b", "/", "1", "2", "0", "0", "0", ",", "0", ",", "3", ",", "0", "/", "t", "y", "p", "e", ":", "i", "f", "r", "a", "m", "e" >>

\* Fragments of the page at load time.
ViewHashes == { << >>, FragLoad, FragApart }

\* Fragments navigated to: the empty one (reset), a viewport and an object to decode.
ViewExtHashes == { << >>, FragCanvasFour, FragTyped }

InitView ==
  /\ pc = "ready"
  /\ \E h \in ViewHashes : Constructed(h)
  /\ localStorage = << >> /\ storageFails = FALSE /\ ephemeralTokens = << >>
  /\ storageFull = FALSE
  /\ hashUpdateHandle = FALSE /\ suppressHash = FALSE /\ hashDirty = FALSE
  /\ skipNextHashWrite = FALSE /\ readyForHashWrites = TRUE
  /\ initialFitDone = FALSE /\ wheelFlushHandle = FALSE
  /\ isDragging = FALSE /\ isPanningCanvas = FALSE /\ dragTarget = 0
  /\ viewAnimation = NoAnimation
  /\ effectDirty = TRUE
  /\ hashchangeQueued = 0 /\ raised = FALSE
  /\ frag = << >> /\ srcObjects = << >> /\ srcView = << >>
  /\ writes = 0
  /\ writeLog = NoWrite
  /\ gestureLog = NoGesture
  /\ windowLog = Window(0, TRUE)
  /\ clearLog = NoClear
  /\ budget = MaxEvents

NextView ==
  \/ EffectRun
  \/ HashTimerFires
  \/ WheelFlushFires
  \/ onHashChange
  \/ \E h \in ViewExtHashes : ExternalHashChange(h)
  \/ \E f \in ZoomFactors : onWheel(f)
  \/ \E s \in PinchScales : onTouchMove(s)
  \/ onTouchEnd
  \/ fitToView
  \/ onAppChange
  \/ \E e \in Easings : AnimationFrame(e)

SpecView == InitView /\ [][NextView]_vars

\* C16: in every state the zoom factor lies in [minZoom, maxZoom].
C16_ZoomInRange == zoom >= minZoom /\ zoom <= maxZoom

\* C17: every object in the live list, also after the decode of an arbitrary
\* fragment, has originalAspectRatio > 0, width > 0 and height > 0.
C17_GeometryPositive ==
  \A i \in 1..Len(objects) :
    objects[i].originalAspectRatio > 0 /\ objects[i].width > 0 /\ objects[i].height > 0

\* ------------------------------------------------------------------------
\* Sessions that drop, paste and delete content
\* ------------------------------------------------------------------------

\* A second payload.
Payload2 == << "d", "a", "t", "a", ":", "y" >>

\* Names of the dropped files and what the FileReader hands over.
DropNames == { File1 }

DropPayloads == { Payload, Payload2 }

\* What is pasted: a data URL and a page URL.
PasteTexts == { Payload, U1 }

\* reader.onload and img.onload of onDrop: a file of that name and content is
\* dropped at the viewport origin; the image is square.
onDrop(filename, content) ==
  /\ budget > 0
  /\ Len(objects) < MaxObjects
  /\ \E d \in {deriveSourceRef(localStorage, storageFails, storageFull, ephemeralTokens, content,
                                filename, Stamp(nextId))} :
       /\ addObject([id |-> nextId, type |-> IMAGE, x |-> 0, y |-> 0,
                     width |-> baseSize * Unit, height |-> baseSize * Unit, rotation |-> 0,
                     content |-> content, sourceRef |-> d.ref, originalAspectRatio |-> Unit,
                     ogImage |-> NULL, displayMode |-> IMAGE, isEmptyFrame |-> FALSE,
                     isFrameObject |-> FALSE])
       /\ localStorage' = d.ls /\ ephemeralTokens' = d.eph
  /\ nextId' = nextId + 1
  /\ budget' = budget - 1
  /\ LogMutation(MarksDirty)
  /\ raised' = FALSE
  /\ UNCHANGED << viewportX, viewportY, zoom, lastSerializedHash, suppressHash, initialFitDone,
                  wheelFlushHandle, gest, location, hashchangeQueued, storeFixed >>

onObjectClick(objectId) ==
  /\ budget > 0
  /\ selectedObjectId # objectId
  /\ selectedObjectId' = objectId
  /\ effectDirty' = effectDirty
  /\ budget' = budget - 1
  /\ LogOther
  /\ gestureLog' = gestureLog
  /\ raised' = FALSE
  /\ UNCHANGED << viewportX, viewportY, zoom, objects, nextId, ctl, gest, location,
                  hashchangeQueued, sessionFixed >>

\* Pages at load time: [h, ls].  No fragment on a fresh device; the fragment
\* of an earlier session that dropped f.png, on the device that holds it.
StoreLoads ==
  { [h |-> << >>, ls |-> << >>],
    [h |-> FragFileImage, ls |-> (makeFileKey(File1) :> Payload)] }

\* Durable storage: accepting writes, throwing on write, entirely unavailable.
StoreModes ==
  { [fails |-> FALSE, full |-> FALSE], [fails |-> FALSE, full |-> TRUE],
    [fails |-> TRUE, full |-> FALSE] }

InitStore ==
  /\ pc = "ready"
  /\ \E l \in StoreLoads, m \in StoreModes :
       /\ ConstructedOn(l.ls, m.fails, l.h)
       /\ localStorage = cleanupOrphanedStorage(l.ls, m.fails, objects)
       /\ storageFails = m.fails /\ storageFull = m.full
  /\ ephemeralTokens = << >>
  /\ hashUpdateHandle = FALSE /\ suppressHash = FALSE /\ hashDirty = FALSE
  /\ skipNextHashWrite = FALSE /\ readyForHashWrites = TRUE
  /\ initialFitDone = FALSE /\ wheelFlushHandle = FALSE
  /\ isDragging = FALSE /\ isPanningCanvas = FALSE /\ dragTarget = 0
  /\ viewAnimation = NoAnimation
  /\ effectDirty = TRUE
  /\ hashchangeQueued = 0 /\ raised = FALSE
  /\ frag = << >> /\ srcObjects = objects /\ srcView = << >>
  /\ writes = 0
  /\ writeLog = NoWrite
  /\ gestureLog = NoGesture
  /\ windowLog = Window(0, TRUE)
  /\ clearLog = NoClear
  /\ budget = MaxEvents

NextStore ==
  \/ \E n \in DropNames, c \in DropPayloads : onDrop(n, c)
  \/ \E t \in PasteTexts : onPaste(t, 0)
  \/ \E i \in 1..Len(objects) : onObjectClick(objects[i].id)
  \/ onKeyDown

SpecStore == InitStore /\ [][NextStore]_vars

\* The object's reference is a filename or a token, not an absolute URL.
IsStoredRef(o) == ~StartsWith(o.sourceRef, << "h", "t", "t", "p" >>)

\* resolveContent on the live store gives the object's payload.
ResolvesToPayload(o) ==
  resolveContent(localStorage, storageFails, ephemeralTokens, o.sourceRef, o.type) = o.content

\* C18: with durable storage available, every live object with a filename or
\* token reference resolves to its payload, and decoding the encoded state on
\* the same device (a reload: the in-memory tokens are gone) gives an object
\* with that reference and that payload.
C18_Resolvable ==
  (~storageFails /\ ~storageFull) =>
    /\ \A i \in 1..Len(objects) : IsStoredRef(objects[i]) => ResolvesToPayload(objects[i])
    /\ Bind(DecodeHash(localStorage, FALSE, << >>,
                       << "#" >> \o serializeStateToHash(viewportX, viewportY, zoom, objects),
                       0, 0, Unit), LAMBDA d :
         /\ ~d.raise /\ ~d.early
         /\ \A i \in 1..Len(objects) : IsStoredRef(objects[i]) =>
              \E j \in 1..Len(d.objs) : /\ d.objs[j].sourceRef = objects[i].sourceRef
                                        /\ d.objs[j].content = objects[i].content)

\* C19: in every behaviour of durable storage no drop or paste raises, and
\* the reference it gave resolves to the stored payload for as long as the
\* object created with it is live.
C19_FallbackResolves ==
  /\ ~raised
  /\ \A i \in 1..Len(objects) :
       objects[i].id > Len(srcObjects) => ResolvesToPayload(objects[i])

\* ------------------------------------------------------------------------
\* Startup: the constructor restores the fragment of the page
\* ------------------------------------------------------------------------

\* Fragments of the page at load time: none, a canonical one, one typed by
\* hand, one that holds no object, one whose decode throws.
StartHashes == { << >>, FragLoad, FragTyped, FragShort, FragBadRef }

\* The fields as initialised and the two effects registered; hashToRestore
\* (frag) is window.location.hash.
InitStartup ==
  /\ pc = "constructing"
  /\ \E h \in StartHashes : location = h /\ frag = h
  /\ viewportX = 0 /\ viewportY = 0 /\ zoom = Unit
  /\ objects = << >> /\ selectedObjectId = 0 /\ nextId = 1
  /\ localStorage = << >> /\ storageFails = FALSE /\ ephemeralTokens = << >>
  /\ storageFull = FALSE
  /\ lastSerializedHash = << >>
  /\ hashUpdateHandle = FALSE /\ suppressHash = FALSE /\ hashDirty = FALSE
  /\ skipNextHashWrite = FALSE /\ readyForHashWrites = FALSE
  /\ initialFitDone = FALSE /\ restoredFromHash = FALSE /\ wheelFlushHandle = FALSE
  /\ isDragging = FALSE /\ isPanningCanvas = FALSE /\ dragTarget = 0
  /\ viewAnimation = NoAnimation
  /\ effectDirty = TRUE
  /\ hashchangeQueued = 0 /\ raised = FALSE
  /\ srcObjects = << >> /\ srcView = << >>
  /\ writes = 0
  /\ writeLog = NoWrite
  /\ gestureLog = NoGesture
  /\ windowLog = Window(0, TRUE)
  /\ clearLog = NoClear
  /\ budget = MaxEvents

\* What the steps of the constructor leave alone.
startupFixed == << store, wheelFlushHandle, gest, viewAnimation, effectDirty, location,
                  hashchangeQueued, codecIo, budget >>

\* this.restoredFromHash = !!hashToRestore; this.suppressHash = true
ConstructSuppress ==
  /\ pc = "constructing"
  /\ restoredFromHash' = (frag # << >>)
  /\ suppressHash' = TRUE
  /\ pc' = "restoring"
  /\ LogOther
  /\ gestureLog' = gestureLog
  /\ UNCHANGED << signals, nextId, lastSerializedHash, hashUpdateHandle, hashDirty,
                  skipNextHashWrite, readyForHashWrites, initialFitDone, raised, startupFixed >>

\* A constructor that does not look at the fragment.
ConstructRestoreSkip ==
  /\ pc = "restoring"
  /\ suppressHash' = FALSE
  /\ pc' = "restored"
  /\ LogOther
  /\ gestureLog' = gestureLog
  /\ UNCHANGED << signals, nextId, lastSerializedHash, hashUpdateHandle, hashDirty,
                  skipNextHashWrite, readyForHashWrites, initialFitDone, restoredFromHash,
                  raised, effectDirty, store, wheelFlushHandle, gest, viewAnimation, location,
                  hashchangeQueued, codecIo, budget >>

\* if (hashToRestore) this.applyHashState(hashToRestore); this.suppressHash = false
\* A throw of applyHashState leaves the constructor.
ConstructRestore ==
  /\ pc = "restoring"
  /\ \E r \in {applyHashState(frag, TRUE)} :
       \E thrown \in {frag # << >> /\ r.returned = "raise"} :
         /\ IF frag # << >> THEN Applied(r, << >>)
            ELSE UNCHANGED << signals, nextId, lastSerializedHash, initialFitDone, effectDirty,
                              raised >>
         /\ suppressHash' = (IF thrown THEN suppressHash ELSE FALSE)
         /\ pc' = (IF thrown THEN "failed" ELSE "restored")
  /\ LogOther
  /\ gestureLog' = gestureLog
  /\ UNCHANGED << hashUpdateHandle, hashDirty, skipNextHashWrite, readyForHashWrites,
                  restoredFromHash, store, wheelFlushHandle, gest, viewAnimation, location,
                  hashchangeQueued, codecIo, budget >>

\* this.readyForHashWrites = true; if (this.hashDirty) this.scheduleHashUpdate()
ConstructReady ==
  /\ pc = "restored"
  /\ readyForHashWrites' = TRUE
  /\ Scheduled(IF hashDirty
                 THEN scheduleHashUpdate(skipNextHashWrite, TRUE, suppressHash, hashDirty, hashUpdateHandle)
                 ELSE [skip |-> skipNextHashWrite, dirty |-> hashDirty, handle |-> hashUpdateHandle])
  /\ pc' = "ready"
  /\ LogOther
  /\ gestureLog' = gestureLog
  /\ UNCHANGED << signals, nextId, lastSerializedHash, suppressHash, initialFitDone,
                  restoredFromHash, raised, startupFixed >>

\* The user acts on the page the constructor left.
StartupEvent ==
  /\ pc = "ready"
  /\ \/ onPaste(U1, 0)
     \/ \E f \in ZoomFactors : onWheel(f)

\* The effect may run once it is registered; timers and events as they come.
NextStartup ==
  \/ ConstructSuppress
  \/ ConstructRestore
  \/ ConstructReady
  \/ EffectRun
  \/ HashTimerFires
  \/ WheelFlushFires
  \/ onHashChange
  \/ StartupEvent

SpecStartup == InitStartup /\ [][NextStartup]_vars

\* What decoding the load-time fragment over the fields as initialised gives.
Restored == DecodeHash(<< >>, FALSE, << >>, frag, 0, 0, Unit)

\* The user has not acted yet.
NoEventYet == budget = MaxEvents

C21_AutoFitSkipped == ~initialFitDone

\* C22 as stated: a step that issues a location write gives the location a
\* value it did not have (no write is issued while the encoding of the
\* current state equals the current location value).
C22_NoWriteIfLocationEqual == [][writes' # writes => location' # location]_vars

\* C22: encode is an operator of the viewport and the object list and of
\* nothing else, and every location write assigns the encoding of the current
\* state, which differs from the value recorded last (lastSerializedHash): when
\* the timer fires while the two are equal no write is issued.
C22_NoWriteIfLastEqual ==
  [][writes' # writes =>
       /\ CurrentPrefixed # lastSerializedHash
       /\ location' = CurrentPrefixed
       /\ lastSerializedHash' = CurrentPrefixed]_vars

\* C22 witness: the timer fired over a restored scene whose encoding is the
\* value recorded last, and nothing was written.
C22_Witness ==
  /\ windowLog.fired /\ ~windowLog.wrote /\ writes = 0
  /\ objects # << >> /\ CurrentPrefixed = lastSerializedHash /\ location = lastSerializedHash

\* ------------------------------------------------------------------------
\* Creation of objects: every way a reference gets into the scene
\* ------------------------------------------------------------------------

\* The shareUrl query parameter of the page: absent, a page URL, a data: URL.
ShareUrls == { NULL, U1, Payload }

\* What the URL modal is submitted with.
ModalTexts == { U2, Payload }

\* What fetchRandomGradimUrl resolves to: nothing, or a page of the wall.
RandomUrls == { NULL, U2 }

WallUrlKey == << "w", "a", "l", "l", "-", "u", "r", "l" >>

\* num / den in ten-thousandths, of either sign.
Ratio(num, den) == IF num >= 0 THEN Quotient(num, den) ELSE 0 - Quotient(0 - num, den)

\* The object addUrlObject(url) builds at zoom z.
addUrlObject(id, url, z) ==
  UrlObject(id, url, Ratio((1920 \div 2 - 600 \div 2) * Unit, z),
            Ratio((1080 \div 2 - 400 \div 2) * Unit, z))

\* localStorage.setItem('wall-url', url) inside its try.
StoreWallUrl(ls, fails, full, url) == IF fails \/ full THEN ls ELSE SetItem(ls, WallUrlKey, url)

\* The state after the constructor and its render callback ran: the fragment
\* restored, the orphaned entries removed, the shareUrl parameter added.
InitCreate ==
  /\ pc = "ready"
  /\ \E l \in StoreLoads, m \in StoreModes, shareUrl \in ShareUrls :
       \E d \in {DecodeHash(l.ls, m.fails, << >>, l.h, 0, 0, Unit)} :
         \E restored \in {IF ~d.early /\ ~d.raise THEN WithIds(d.objs, 1) ELSE << >>} :
           \E add \in {/\ Truthy(shareUrl)
                       /\ ~\E i \in 1..Len(restored) : restored[i].sourceRef = shareUrl} :
             /\ viewportX = d.vx /\ viewportY = d.vy /\ zoom = d.vz
             /\ objects = (IF add THEN Append(restored,
                                              addUrlObject(Len(restored) + 1, shareUrl, d.vz))
                           ELSE restored)
             /\ nextId = Len(restored) + (IF add THEN 2 ELSE 1)
             /\ selectedObjectId = (IF add THEN Len(restored) + 1 ELSE 0)
             /\ lastSerializedHash = (IF ~d.early /\ ~d.raise THEN l.h ELSE << >>)
             /\ restoredFromHash = (l.h # << >>)
             /\ location = l.h
             /\ localStorage = (IF Truthy(shareUrl)
                                  THEN StoreWallUrl(cleanupOrphanedStorage(l.ls, m.fails, restored),
                                                    m.fails, m.full, shareUrl)
                                ELSE cleanupOrphanedStorage(l.ls, m.fails, restored))
             /\ storageFails = m.fails /\ storageFull = m.full
             /\ hashUpdateHandle = add
             /\ srcObjects = restored
  /\ ephemeralTokens = << >>
  /\ suppressHash = FALSE /\ hashDirty = FALSE
  /\ skipNextHashWrite = FALSE /\ readyForHashWrites = TRUE
  /\ initialFitDone = FALSE /\ wheelFlushHandle = FALSE
  /\ isDragging = FALSE /\ isPanningCanvas = FALSE /\ dragTarget = 0
  /\ viewAnimation = NoAnimation
  /\ effectDirty = TRUE
  /\ hashchangeQueued = 0 /\ raised = FALSE
  /\ frag = << >> /\ srcView = << >>
  /\ writes = 0
  /\ writeLog = NoWrite
  /\ gestureLog = NoGesture
  /\ windowLog = Window(0, TRUE)
  /\ clearLog = NoClear
  /\ budget = MaxEvents

\* reader.onload and img.onload of onFileSelected: the picked file lands at
\* the centre of the window; the image is square.
onFileSelected(filename, content) ==
  /\ budget > 0
  /\ Len(objects) < MaxObjects
  /\ \E d \in {deriveSourceRef(localStorage, storageFails, storageFull, ephemeralTokens, content,
                                filename, Stamp(nextId))} :
       /\ addObject([id |-> nextId, type |-> IMAGE,
                     x |-> Ratio((innerWidth \div 2) * Unit - viewportX, zoom) - (baseSize \div 2) * Unit,
                     y |-> Ratio((innerHeight \div 2) * Unit - viewportY, zoom) - (baseSize \div 2) * Unit,
                     width |-> baseSize * Unit, height |-> baseSize * Unit, rotation |-> 0,
                     content |-> content, sourceRef |-> d.ref, originalAspectRatio |-> Unit,
                     ogImage |-> NULL, displayMode |-> IMAGE, isEmptyFrame |-> FALSE,
                     isFrameObject |-> FALSE])
       /\ localStorage' = d.ls /\ ephemeralTokens' = d.eph
  /\ nextId' = nextId + 1
  /\ budget' = budget - 1
  /\ LogMutation(MarksDirty)
  /\ raised' = FALSE
  /\ UNCHANGED << viewportX, viewportY, zoom, lastSerializedHash, suppressHash, initialFitDone,
                  wheelFlushHandle, gest, location, hashchangeQueued, storeFixed >>

\* submitUrlModal with a non-empty text: addIframeFromUrl(url), for a URL that
\* is no page of the wall.
addIframeFromUrl(url) ==
  /\ budget > 0
  /\ Len(objects) < MaxObjects
  /\ isValidUrl(url)
  /\ \E d \in {deriveSourceRef(localStorage, storageFails, storageFull, ephemeralTokens, url, NULL,
                                Stamp(nextId))} :
       /\ addObject([UrlObject(nextId, url,
                               Ratio((innerWidth \div 2) * Unit - viewportX, zoom),
                               Ratio((innerHeight \div 2) * Unit - viewportY, zoom))
                       EXCEPT !.sourceRef = d.ref])
       /\ localStorage' = d.ls /\ ephemeralTokens' = d.eph
  /\ nextId' = nextId + 1
  /\ budget' = budget - 1
  /\ LogMutation(MarksDirty)
  /\ raised' = FALSE
  /\ UNCHANGED << viewportX, viewportY, zoom, lastSerializedHash, suppressHash, initialFitDone,
                  wheelFlushHandle, gest, location, hashchangeQueued, storeFixed >>

\* cleanupObjectStorage over a list of objects: [ls, eph].
RECURSIVE cleanupObjects(_, _, _, _)
cleanupObjects(ls, fails, eph, objs) ==
  IF objs = << >> THEN [ls |-> ls, eph |-> eph]
  ELSE Bind(cleanupObjectStorage(ls, fails, eph, Head(objs)), LAMBDA c :
         cleanupObjects(c.ls, fails, c.eph, Tail(objs)))

\* shuffleImage(), the fetch resolving to randomUrl: the iframe objects go, and
\* the page fetched takes their place.
shuffleImage(randomUrl) ==
  /\ budget > 0
  /\ \E kept \in {SelectSeq(objects, LAMBDA o : o.type # IFRAME)} :
       /\ Len(kept) < MaxObjects
       /\ \E c \in {cleanupObjects(localStorage, storageFails, ephemeralTokens,
                                   SelectSeq(objects, LAMBDA o : o.type = IFRAME))} :
            /\ ephemeralTokens' = c.eph
            /\ localStorage' = (IF Truthy(randomUrl)
                                  THEN StoreWallUrl(c.ls, storageFails, storageFull, randomUrl)
                                ELSE c.ls)
       /\ IF Truthy(randomUrl)
            THEN /\ objects' = Append(kept, addUrlObject(nextId, randomUrl, zoom))
                 /\ selectedObjectId' = nextId
                 /\ nextId' = nextId + 1
                 /\ Scheduled(scheduleHashUpdate(skipNextHashWrite, readyForHashWrites,
                                                 suppressHash, hashDirty, hashUpdateHandle))
                 /\ LogMutation(MarksDirty)
            ELSE /\ objects' = kept
                 /\ selectedObjectId' = 0
                 /\ nextId' = nextId
                 /\ UNCHANGED << skipNextHashWrite, hashDirty, hashUpdateHandle >>
                 /\ LogMutation(FALSE)
  /\ effectDirty' = TRUE
  /\ budget' = budget - 1
  /\ raised' = FALSE
  /\ UNCHANGED << viewportX, viewportY, zoom, lastSerializedHash, suppressHash, initialFitDone,
                  wheelFlushHandle, gest, location, hashchangeQueued, storeFixed >>

NextCreate ==
  \/ \E n \in DropNames, c \in DropPayloads : onDrop(n, c)
  \/ \E n \in DropNames, c \in DropPayloads : onFileSelected(n, c)
  \/ \E t \in PasteTexts : onPaste(t, 0)
  \/ \E t \in ModalTexts : addIframeFromUrl(t)
  \/ \E u \in RandomUrls : shuffleImage(u)
  \/ onKeyDown
  \/ EffectRun
  \/ HashTimerFires

SpecCreate == InitCreate /\ [][NextCreate]_vars

\* The references of the object segments of a fragment, as written.
SegmentRefs(f) ==
  { Sub(s, 1, Min({i \in 1..Len(s) : s[i] = "/"} \cup {Len(s) + 1}) - 1) :
      s \in { t \in { SegmentsOf(f)[i] : i \in 1..Len(SegmentsOf(f)) } :
                ~StartsWith(t, CANVAS \o << "/" >>) } }

\* C23: no object segment of the fragment at the location has a data: URL for
\* its reference, whichever way the objects were created and whatever the
\* durable storage does.
C23_NoPayloadInFragment ==
  \A r \in SegmentRefs(location) : ~StartsWith(r, encodeURIComponent(<< "d", "a", "t", "a", ":" >>))

\* ------------------------------------------------------------------------
\* Encode alone: the wire format of serializeStateToHash
\* ------------------------------------------------------------------------

\* An image of 400 x 300 at (100, 200), turned by 45 degrees, as a drop makes
\* it: no display mode, no preview image.
ExampleImage ==
  CodecObject(IMAGE, << "h", "t", "t", "p", "s", ":", "/", "/", "e", "x", "a", "m", "p", "l", "e", ".", "c", "o", "m", "/", "a", ".", "p", "n", "g" >>, 100 * Unit, 200 * Unit, 400 * Unit, 300 * Unit,
              45 * Unit, NULL, NULL)

\* Objects to encode: the example, a frame of the frame app (not persisted),
\* an image with a display mode and a preview image and coordinates beyond
\* the third decimal, an iframe with a token reference.
EncodeObjects ==
  { ExampleImage,
    [CodecObject(IMAGE, File1, 0, 0, 200 * Unit, 200 * Unit, 0, NULL, NULL)
       EXCEPT !.isFrameObject = TRUE],
    CodecObject(IMAGE, U2, -123455, 1000000, 1234567, 925925, 455000, OG1, IFRAME),
    CodecObject(IFRAME, TOKEN \o Token1, 14, -15, 600 * Unit, 400 * Unit, -900000, NULL, IMAGE) }

InitEncode ==
  /\ pc = "scene"
  /\ \E v \in CodecViews :
       /\ viewportX = v.x /\ viewportY = v.y /\ zoom = v.zoom
       /\ srcView = [x |-> v.x, y |-> v.y, zoom |-> v.zoom, from |-> "scene"]
  /\ \E l \in Lists(EncodeObjects, MaxSceneLen) :
       /\ objects = WithIds(l, 1)
       /\ srcObjects = objects
       /\ nextId = Len(l) + 1
  /\ selectedObjectId = 0
  /\ localStorage = << >> /\ storageFails = FALSE /\ ephemeralTokens = << >>
  /\ storageFull = FALSE
  /\ lastSerializedHash = << >> /\ hashUpdateHandle = FALSE /\ suppressHash = FALSE
  /\ hashDirty = FALSE /\ skipNextHashWrite = FALSE /\ readyForHashWrites = TRUE
  /\ initialFitDone = FALSE /\ restoredFromHash = TRUE /\ wheelFlushHandle = FALSE
  /\ isDragging = FALSE /\ isPanningCanvas = FALSE /\ dragTarget = 0
  /\ viewAnimation = NoAnimation
  /\ effectDirty = FALSE /\ location = << >> /\ hashchangeQueued = 0
  /\ raised = FALSE /\ frag = << >>
  /\ writes = 0 /\ writeLog = << >> /\ gestureLog = << >> /\ windowLog = << >>
  /\ clearLog = << >> /\ budget = 0

SpecEncode == InitEncode /\ [][CodecSerialize]_vars

\* The objects of a list that the encoder persists.
Persistable(objs) == SelectSeq(objs, LAMBDA o : ~o.isFrameObject /\ ~o.isEmptyFrame)

\* num / den rounded to 3 decimals, as the fragment shows it.
Shown3(num, den) == NumberToString(10 * Thousandths(num, den))

\* The segment the wire format prescribes for the object o.
WireSegment(o) ==
  Join(<< encodeURIComponent(o.sourceRef),
          Join(<< NumberToString(Nearest3(o.x)), NumberToString(Nearest3(o.y)),
                  Shown3(o.width, baseSize * Unit), NumberToString(Nearest3(o.rotation)) >>, ","),
          Join(<< << "t", "y", "p", "e", ":" >> \o o.type, << "r", "a", "t", "i", "o", ":" >> \o Shown3(o.height, o.width) >>
               \o (IF o.displayMode # NULL THEN << << "m", "o", "d", "e", ":" >> \o o.displayMode >> ELSE << >>)
               \o (IF o.ogImage # NULL THEN << << "o", "g", ":" >> \o encodeURIComponent(o.ogImage) >>
                   ELSE << >>), ",") >>, "/")

\* C24: the encoded fragment splits at '#' into the canvas segment
\* canvas/<panX>,<panY>,<zoom> and one segment per persistable object in
\* list order; an object segment splits at '/' into the percent-encoded
\* reference, x,y,width/200,rotation and the flags type:, ratio:height/width,
\* then mode: and og: when present, every number rounded to 3 decimals; the
\* viewport (12.3456, -7, 1.25) with the example image alone encodes to
\* canvas/12.346,-7,1.25#https%3A%2F%2Fexample.com%2Fa.png/100,200,2,45/type:image,ratio:0.75
C24_WireFormat ==
  (pc = "encoded") =>
    Bind(Split(Sub(frag, 2, Len(frag)), "#"), LAMBDA segs :
      Bind(Persistable(srcObjects), LAMBDA pers :
        /\ Len(segs) = 1 + Len(pers)
        /\ segs[1] = CANVAS \o << "/" >>
                       \o Join(<< NumberToString(Nearest3(srcView.x)),
                                  NumberToString(Nearest3(srcView.y)),
                                  NumberToString(Nearest3(srcView.zoom)) >>, ",")
        /\ \A i \in 1..Len(pers) :
             /\ segs[i + 1] = WireSegment(pers[i])
             /\ Len(Split(segs[i + 1], "/")) = 3
        /\ (srcView.x = 123456 /\ srcView.y = -70000 /\ srcView.zoom = 12500
              /\ StripIds(srcObjects) = << ExampleImage >>)
             => frag = << "#", "c", "a", "n", "v", "a", "s", "/", "1", "2", ".", "3", "4", "6", ",", "-", "7", ",", "1", ".", "2", "5", "#", "h", "t", "t", "p", "s", "%", "3", "A", "%", "2", "F", "%", "2", "F", "e", "x", "a", "m", "p", "l", "e", ".", "c", "o", "m", "%", "2", "F", "a", ".", "p", "n", "g", "/", "1", "0", "0", ",", "2", "0", "0", ",", "2", ",", "4", "5", "/", "t", "y", "p", "e", ":", "i", "m", "a", "g", "e", ",", "r", "a", "t", "i", "o", ":", "0", ".", "7", "5" >>))

\* C24 witness: the example of the format has been encoded.
C24_Witness ==
  /\ pc = "encoded"
  /\ srcView.x = 123456 /\ srcView.y = -70000 /\ srcView.zoom = 12500
  /\ StripIds(srcObjects) = << ExampleImage >>
  /\ Len(frag) > 1

\* ------------------------------------------------------------------------
\* Properties of decode: the defaults of the flags
\* ------------------------------------------------------------------------

\* The entries key:value of the flags part of the only segment of fragment f.
FlagTexts(f) == Split(ScanSegment(SegmentsOf(f)[1]).flagsPart, ",")

\* The text after `key:` in the last entry of that key, NULL when there is none.
FlagText(f, key) ==
  Bind(FlagTexts(f), LAMBDA es :
  Bind({i \in 1..Len(es) : StartsWith(es[i], key \o << ":" >>)}, LAMBDA hits :
    IF hits = {} THEN NULL ELSE Sub(es[Max(hits)], Len(key) + 2, Len(es[Max(hits)]))))

\* Fragment f with the entries of unrecognized keys taken out of its flags.
KnownFlagsOnly(f) ==
  Bind(ScanSegment(SegmentsOf(f)[1]), LAMBDA sc :
    << "#" >> \o sc.encodedRef \o << "/" >> \o sc.transformPart \o << "/" >>
      \o Join(SelectSeq(Split(sc.flagsPart, ","), LAMBDA e :
                \E key \in {<< "t", "y", "p", "e" >>, << "r", "a", "t", "i", "o" >>, << "m", "o", "d", "e" >>, << "o", "g" >>} : StartsWith(e, key \o << ":" >>)),
              ","))

\* C25: decoding a well-formed object segment gives an object whose kind is
\* image unless the type flag names one of the two kinds, whose ratio is 1
\* unless the ratio flag parses as a number, whose width is 200 * scale and
\* whose height is width * ratio; entries of unrecognized keys change nothing.
C25_DecodeDefaults ==
  (pc = "decoded" /\ frag \in DefaultFragments) =>
    Bind(Split(ScanSegment(SegmentsOf(frag)[1]).transformPart, ","), LAMBDA t :
    Bind(IF FlagText(frag, << "r", "a", "t", "i", "o" >>) = NULL \/ parseFloat(FlagText(frag, << "r", "a", "t", "i", "o" >>)).nan THEN Unit
         ELSE parseFloat(FlagText(frag, << "r", "a", "t", "i", "o" >>)).val, LAMBDA ratio :
      /\ ~raised
      /\ Len(objects) = 1
      /\ objects[1].type = (IF FlagText(frag, << "t", "y", "p", "e" >>) = IFRAME THEN IFRAME ELSE IMAGE)
      /\ objects[1].originalAspectRatio = ratio
      /\ objects[1].width = baseSize * parseFloat(t[3]).val
      /\ objects[1].height = Times(objects[1].width, ratio)
      /\ StripIds(objects) = StripIds(DecodeFromPrior(KnownFlagsOnly(frag)).objs)))

\* C25 without the kind: the ratio, the width, the height and the unknown keys.
C25_RatioAndSize ==
  (pc = "decoded" /\ frag \in DefaultFragments) =>
    Bind(Split(ScanSegment(SegmentsOf(frag)[1]).transformPart, ","), LAMBDA t :
    Bind(IF FlagText(frag, << "r", "a", "t", "i", "o" >>) = NULL \/ parseFloat(FlagText(frag, << "r", "a", "t", "i", "o" >>)).nan THEN Unit
         ELSE parseFloat(FlagText(frag, << "r", "a", "t", "i", "o" >>)).val, LAMBDA ratio :
      /\ ~raised
      /\ Len(objects) = 1
      /\ (FlagText(frag, << "t", "y", "p", "e" >>) = NULL => objects[1].type = IMAGE)
      /\ objects[1].originalAspectRatio = ratio
      /\ objects[1].width = baseSize * parseFloat(t[3]).val
      /\ objects[1].height = Times(objects[1].width, ratio)
      /\ StripIds(objects) = StripIds(DecodeFromPrior(KnownFlagsOnly(frag)).objs)))

\* ------------------------------------------------------------------------
\* resolveContent alone
\* ------------------------------------------------------------------------

\* A URL that is neither http nor https.
U3 == << "f", "t", "p", ":", "/", "/", "a", ".", "b" >>

\* Durable storage and the in-memory map when a reference is resolved:
\* nothing stored; a token and a dropped file stored; durable storage
\* throwing and the token in memory; the token in both with different
\* values; an entry under the file key of a URL.
ResolveStores ==
  { [ls |-> << >>, fails |-> FALSE, eph |-> << >>],
    [ls |-> (Token1 :> Payload) @@ (makeFileKey(File1) :> Payload), fails |-> FALSE, eph |-> << >>],
    [ls |-> << >>, fails |-> TRUE, eph |-> (Token1 :> Payload)],
    [ls |-> (Token1 :> Payload), fails |-> FALSE, eph |-> (Token1 :> Payload2)],
    [ls |-> (makeFileKey(U1) :> Payload2), fails |-> FALSE, eph |-> << >>] }

\* References: absolute http(s) URLs, a stored and an unknown token, a stored
\* and an unknown filename, a URL of another scheme.
ResolveRefs == { U1, U2, TOKEN \o Token1, TOKEN \o << "z", "z" >>, File1, << "g", ".", "p", "n", "g" >>, U3 }

InitResolve ==
  /\ pc = "asked"
  /\ \E st \in ResolveStores :
       localStorage = st.ls /\ storageFails = st.fails /\ ephemeralTokens = st.eph
  /\ \E ref \in ResolveRefs, type \in {IMAGE, IFRAME} :
       /\ frag = ref
       /\ srcView = [type |-> type, result |-> NULL]
  /\ storageFull = FALSE
  /\ viewportX = 0 /\ viewportY = 0 /\ zoom = Unit
  /\ objects = << >> /\ srcObjects = << >> /\ nextId = 1
  /\ selectedObjectId = 0
  /\ lastSerializedHash = << >> /\ hashUpdateHandle = FALSE /\ suppressHash = FALSE
  /\ hashDirty = FALSE /\ skipNextHashWrite = FALSE /\ readyForHashWrites = TRUE
  /\ initialFitDone = FALSE /\ restoredFromHash = FALSE /\ wheelFlushHandle = FALSE
  /\ isDragging = FALSE /\ isPanningCanvas = FALSE /\ dragTarget = 0
  /\ viewAnimation = NoAnimation
  /\ effectDirty = FALSE /\ location = << >> /\ hashchangeQueued = 0
  /\ raised = FALSE
  /\ writes = 0 /\ writeLog = << >> /\ gestureLog = << >> /\ windowLog = << >>
  /\ clearLog = << >> /\ budget = 0

\* resolveContent(frag, srcView.type) on the store as it is.
Resolve ==
  /\ pc = "asked"
  /\ srcView' = [srcView EXCEPT !.result = resolveContent(localStorage, storageFails,
                                                         ephemeralTokens, frag, srcView.type)]
  /\ pc' = "resolved"
  /\ UNCHANGED << signals, nextId, lastSerializedHash, initialFitDone, effectDirty, raised,
                  frag, srcObjects, codecFixed >>

SpecResolve == InitResolve /\ [][Resolve]_vars

\* The reference is an absolute http(s) URL.
IsHttpUrl(ref) == StartsWith(ref, << "h", "t", "t", "p", ":", "/", "/" >>) \/ StartsWith(ref, << "h", "t", "t", "p", "s", ":", "/", "/" >>)

\* The value durable storage holds under key, NULL when it holds none or throws.
Durable(key) == IF ~storageFails /\ key \in DOMAIN localStorage THEN localStorage[key] ELSE NULL

\* C26: an absolute http(s) URL resolves to itself whatever the stores hold;
\* a token: reference to the durable value, else the in-memory value, else
\* null; any other reference to the durable value under its file key, else null.
C26_Resolve ==
  (pc = "resolved") =>
    srcView.result =
      (IF IsHttpUrl(frag) THEN frag
       ELSE IF StartsWith(frag, TOKEN)
         THEN Bind(Sub(frag, Len(TOKEN) + 1, Len(frag)), LAMBDA token :
                IF Durable(token) # NULL THEN Durable(token)
                ELSE IF token \in DOMAIN ephemeralTokens THEN ephemeralTokens[token]
                ELSE NULL)
       ELSE Durable(makeFileKey(frag)))

\* C26 for token references and for the references that are no URL.
C26_ResolveStored ==
  (pc = "resolved" /\ (StartsWith(frag, TOKEN) \/ ~isValidUrl(frag))) =>
    srcView.result =
      (IF StartsWith(frag, TOKEN)
         THEN Bind(Sub(frag, Len(TOKEN) + 1, Len(frag)), LAMBDA token :
                IF Durable(token) # NULL THEN Durable(token)
                ELSE IF token \in DOMAIN ephemeralTokens THEN ephemeralTokens[token]
                ELSE NULL)
       ELSE Durable(makeFileKey(frag)))

\* ------------------------------------------------------------------------
\* cleanupOrphanedStorage alone
\* ------------------------------------------------------------------------

Token2 == dataTokenPrefix \o << "2" >>

File2 == << "g", ".", "p", "n", "g" >>

\* What durable storage can hold: two tokens, two dropped files and a key
\* of another part of the page.
PurgeEntries ==
  (Token1 :> Payload) @@ (Token2 :> Payload2) @@ (makeFileKey(File1) :> Payload)
    @@ (makeFileKey(File2) :> Payload2) @@ (WallUrlKey :> U1)

PurgeStores == { [k \in K |-> PurgeEntries[k]] : K \in SUBSET (DOMAIN PurgeEntries) }

\* Live objects: an image held by token, a dropped image, a pasted page.
PurgeObjects ==
  { CodecObject(IMAGE, TOKEN \o Token1, 0, 0, 200 * Unit, 200 * Unit, 0, NULL, IMAGE),
    CodecObject(IMAGE, File1, 0, 0, 200 * Unit, 200 * Unit, 0, NULL, IMAGE),
    CodecObject(IFRAME, U1, 0, 0, 600 * Unit, 400 * Unit, 0, NULL, IMAGE) }

InitPurge ==
  /\ pc = "loaded"
  /\ \E ls \in PurgeStores, fails \in BOOLEAN :
       /\ localStorage = ls /\ storageFails = fails
       /\ srcView = [before |-> ls]
  /\ \E l \in Lists(PurgeObjects, MaxSceneLen) :
       /\ objects = WithIds(l, 1)
       /\ srcObjects = objects
       /\ nextId = Len(l) + 1
  /\ ephemeralTokens = << >> /\ storageFull = FALSE
  /\ frag = << >>
  /\ viewportX = 0 /\ viewportY = 0 /\ zoom = Unit
  /\ selectedObjectId = 0
  /\ lastSerializedHash = << >> /\ hashUpdateHandle = FALSE /\ suppressHash = FALSE
  /\ hashDirty = FALSE /\ skipNextHashWrite = FALSE /\ readyForHashWrites = TRUE
  /\ initialFitDone = FALSE /\ restoredFromHash = FALSE /\ wheelFlushHandle = FALSE
  /\ isDragging = FALSE /\ isPanningCanvas = FALSE /\ dragTarget = 0
  /\ viewAnimation = NoAnimation
  /\ effectDirty = FALSE /\ location = << >> /\ hashchangeQueued = 0
  /\ raised = FALSE
  /\ writes = 0 /\ writeLog = << >> /\ gestureLog = << >> /\ windowLog = << >>
  /\ clearLog = << >> /\ budget = 0

\* The render callback of the constructor: cleanupOrphanedStorage().
Purge ==
  /\ pc = "loaded"
  /\ localStorage' = cleanupOrphanedStorage(localStorage, storageFails, objects)
  /\ raised' = FALSE
  /\ pc' = "purged"
  /\ UNCHANGED << signals, nextId, ctl, gest, viewAnimation, effectDirty, location,
                  hashchangeQueued, hist, budget, storageFails, storageFull, ephemeralTokens,
                  codecIo >>

SpecPurge == InitPurge /\ [][Purge]_vars

\* The key is one of the content store's.
Owned(key) == StartsWith(key, dataTokenPrefix) \/ StartsWith(key, dataFilePrefix)

\* The reference an object has to the entry under an owned key.
RefOfKey(key) ==
  IF StartsWith(key, dataTokenPrefix) THEN TOKEN \o key
  ELSE Sub(key, Len(dataFilePrefix) + 1, Len(key))

Live(ref) == \E i \in 1..Len(objects) : objects[i].sourceRef = ref

\* C27: the purge removes from an available durable storage exactly the
\* owned keys whose reference no live object has, leaves every other entry
\* as it was, and does not raise, also when storage is unavailable.
C27_PurgeExact ==
  (pc = "purged") =>
    /\ ~raised
    /\ ~storageFails =>
         /\ DOMAIN localStorage =
              { key \in DOMAIN srcView.before : ~Owned(key) \/ Live(RefOfKey(key)) }
         /\ \A key \in DOMAIN localStorage : localStorage[key] = srcView.before[key]

\* C27 witness: a purge that removed an unreferenced file entry and kept a
\* referenced token and the key of another part of the page.
C27_Witness ==
  /\ pc = "purged" /\ ~storageFails
  /\ makeFileKey(File2) \in DOMAIN srcView.before /\ makeFileKey(File2) \notin DOMAIN localStorage
  /\ Token1 \in DOMAIN localStorage /\ Live(TOKEN \o Token1)
  /\ WallUrlKey \in DOMAIN localStorage

\* ------------------------------------------------------------------------
\* The sample-reflect canvas: paste, select, drag, Backspace, hash sync
\* ------------------------------------------------------------------------

\* serializeObjectSegment of the sample-reflect canvas: type and ratio flags only.
reflectSerializeObjectSegment(obj) ==
  Join(<< encodeURIComponent(obj.sourceRef),
          Join(<< NumberToString(roundNumber(obj.x, Unit)), NumberToString(roundNumber(obj.y, Unit)),
                  NumberToString(roundNumber(obj.width, Unit * baseSize)),
                  NumberToString(roundNumber(obj.rotation, Unit)) >>, ","),
          << "t", "y", "p", "e", ":" >> \o obj.type \o << ",", "r", "a", "t", "i", "o", ":" >>
            \o NumberToString(IF obj.width = 0 THEN Unit ELSE roundNumber(obj.height, obj.width)) >>,
       "/")

\* '#' + serializeStateToHash() of the sample-reflect canvas on the objects objs.
reflectPrefixedHash(objs) ==
  << "#" >> \o Join(<< serializeCanvasSegment(viewportX, viewportY, zoom) >>
                    \o [i \in 1..Len(objs) |-> reflectSerializeObjectSegment(objs[i])], "#")

\* scheduleHashUpdate() of the sample-reflect canvas: [dirty, handle].
reflectScheduleHashUpdate(suppress, dirty, handle) ==
  IF suppress THEN [dirty |-> TRUE, handle |-> handle] ELSE [dirty |-> dirty, handle |-> TRUE]

\* The state after the constructor ran on a page without a fragment.  frag is
\* what '#' + serializeStateToHash() gives on the live state; every step that
\* changes the objects brings it up to date, and the timer callback reads it.
InitReflect ==
  /\ pc = "ready"
  /\ \E m \in StoreModes : storageFails = m.fails /\ storageFull = m.full
  /\ localStorage = << >> /\ ephemeralTokens = << >>
  /\ viewportX = 0 /\ viewportY = 0 /\ zoom = Unit
  /\ objects = << >> /\ nextId = 1 /\ selectedObjectId = 0
  /\ lastSerializedHash = << >> /\ location = << >>
  /\ hashUpdateHandle = FALSE /\ suppressHash = FALSE /\ hashDirty = FALSE
  /\ effectDirty = TRUE
  /\ isDragging = FALSE /\ isPanningCanvas = FALSE /\ dragTarget = 0
  /\ skipNextHashWrite = FALSE /\ readyForHashWrites = TRUE
  /\ initialFitDone = FALSE /\ restoredFromHash = FALSE /\ wheelFlushHandle = FALSE
  /\ viewAnimation = NoAnimation
  /\ hashchangeQueued = 0 /\ raised = FALSE
  /\ frag = reflectPrefixedHash(<< >>) /\ srcObjects = << >>
  /\ srcView = [deleted |-> NULL, gesture |-> FALSE]
  /\ writes = 0 /\ writeLog = << >> /\ gestureLog = << >> /\ windowLog = << >>
  /\ clearLog = << >>
  /\ budget = MaxEvents

\* What no step of the sample-reflect canvas touches.
reflectFixed == << viewportX, viewportY, zoom, storageFails, storageFull, isPanningCanvas,
                   skipNextHashWrite, readyForHashWrites, initialFitDone, restoredFromHash,
                   wheelFlushHandle, viewAnimation, hashchangeQueued, raised, srcObjects,
                   writeLog, gestureLog, windowLog, clearLog, pc >>

\* onPaste of a text that is a URL: an iframe at the centre of the window.
reflectOnPaste(text) ==
  /\ budget > 0
  /\ Len(objects) < MaxObjects
  /\ isValidUrl(text)
  /\ \E d \in {deriveSourceRef(localStorage, storageFails, storageFull, ephemeralTokens, text,
                                NULL, Stamp(nextId))} :
       /\ objects' = Append(objects,
                            [UrlObject(nextId, text,
                                       Ratio((innerWidth \div 2) * Unit - viewportX, zoom),
                                       Ratio((innerHeight \div 2) * Unit - viewportY, zoom))
                               EXCEPT !.sourceRef = d.ref, !.displayMode = NULL])
       /\ localStorage' = d.ls /\ ephemeralTokens' = d.eph
  /\ frag' = reflectPrefixedHash(objects')
  /\ selectedObjectId' = nextId
  /\ nextId' = nextId + 1
  /\ \E r \in {reflectScheduleHashUpdate(suppressHash, hashDirty, hashUpdateHandle)} :
       hashDirty' = r.dirty /\ hashUpdateHandle' = r.handle
  /\ effectDirty' = TRUE
  /\ budget' = budget - 1
  /\ UNCHANGED << suppressHash, lastSerializedHash, location, writes, isDragging, dragTarget,
                  srcView, reflectFixed >>

\* onObjectMouseDown: the drag of an object starts.
reflectOnObjectMouseDown(objectId) ==
  /\ budget > 0
  /\ ~isDragging
  /\ isDragging' = TRUE /\ dragTarget' = objectId
  /\ suppressHash' = TRUE
  /\ selectedObjectId' = objectId
  /\ budget' = budget - 1
  /\ UNCHANGED << objects, nextId, localStorage, ephemeralTokens, hashDirty, hashUpdateHandle,
                  effectDirty, lastSerializedHash, location, writes, frag, srcView,
                  reflectFixed >>

\* onMouseUp of that drag.
reflectObjectMouseUp ==
  /\ isDragging
  /\ isDragging' = FALSE /\ dragTarget' = 0
  /\ suppressHash' = FALSE
  /\ \E r \in {IF hashDirty THEN reflectScheduleHashUpdate(FALSE, hashDirty, hashUpdateHandle)
               ELSE [dirty |-> hashDirty, handle |-> hashUpdateHandle]} :
       hashDirty' = r.dirty /\ hashUpdateHandle' = r.handle
  /\ UNCHANGED << objects, nextId, selectedObjectId, localStorage, ephemeralTokens, effectDirty,
                  lastSerializedHash, location, writes, budget, frag, srcView, reflectFixed >>

\* onKeyDown of the sample-reflect canvas: Backspace with an object selected.
reflectOnKeyDown ==
  /\ budget > 0
  /\ selectedObjectId # 0
  /\ suppressHash' = TRUE
  /\ \E cleaned \in {IF \E i \in 1..Len(objects) : objects[i].id = selectedObjectId
                        THEN cleanupObjectStorage(localStorage, storageFails, ephemeralTokens,
                               objects[CHOOSE i \in 1..Len(objects) : objects[i].id = selectedObjectId])
                        ELSE [ls |-> localStorage, eph |-> ephemeralTokens]} :
       localStorage' = cleaned.ls /\ ephemeralTokens' = cleaned.eph
  /\ objects' = SelectSeq(objects, LAMBDA o : o.id # selectedObjectId)
  /\ frag' = reflectPrefixedHash(objects')
  /\ selectedObjectId' = 0
  /\ \E r \in {reflectScheduleHashUpdate(TRUE, hashDirty, hashUpdateHandle)} :
       hashDirty' = r.dirty /\ hashUpdateHandle' = r.handle
  /\ effectDirty' = TRUE
  /\ srcView' = [deleted |-> IF \E i \in 1..Len(objects) : objects[i].id = selectedObjectId
                               THEN reflectSerializeObjectSegment(
                                      objects[CHOOSE i \in 1..Len(objects) :
                                                objects[i].id = selectedObjectId])
                             ELSE NULL,
                 gesture |-> isDragging]
  /\ budget' = budget - 1
  /\ UNCHANGED << nextId, lastSerializedHash, location, writes, isDragging, dragTarget,
                  reflectFixed >>

\* The hash-sync effect of the sample-reflect canvas runs.
reflectEffectRun ==
  /\ effectDirty
  /\ effectDirty' = FALSE
  /\ \E r \in {reflectScheduleHashUpdate(suppressHash, hashDirty, hashUpdateHandle)} :
       hashDirty' = r.dirty /\ hashUpdateHandle' = r.handle
  /\ UNCHANGED << objects, nextId, selectedObjectId, localStorage, ephemeralTokens, suppressHash,
                  lastSerializedHash, location, writes, isDragging, dragTarget, budget, frag,
                  srcView, reflectFixed >>

\* The debounce timer of the sample-reflect canvas fires.  The hashchange
\* event of its write finds the location equal to lastSerializedHash and
\* returns.
reflectHashTimerFires ==
  /\ hashUpdateHandle
  /\ \E wrote \in {frag # lastSerializedHash} :
       /\ location' = (IF wrote THEN frag ELSE location)
       /\ lastSerializedHash' = (IF wrote THEN frag ELSE lastSerializedHash)
       /\ writes' = (IF wrote THEN writes + 1 ELSE writes)
  /\ hashDirty' = FALSE
  /\ hashUpdateHandle' = FALSE
  /\ UNCHANGED << objects, nextId, selectedObjectId, localStorage, ephemeralTokens, suppressHash,
                  effectDirty, isDragging, dragTarget, budget, frag, srcView, reflectFixed >>

NextReflect ==
  \/ \E t \in PasteTexts : reflectOnPaste(t)
  \/ \E i \in 1..Len(objects) : reflectOnObjectMouseDown(objects[i].id)
  \/ reflectObjectMouseUp
  \/ reflectOnKeyDown
  \/ reflectEffectRun
  \/ reflectHashTimerFires

\* The effect runs once its signals changed and an armed timer fires.
SpecReflect ==
  /\ InitReflect /\ [][NextReflect]_vars
  /\ WF_vars(reflectEffectRun) /\ WF_vars(reflectHashTimerFires)

\* frag is the encoding of the live state.
reflectEncodingCurrent == frag = reflectPrefixedHash(objects)

\* The fragment has segment seg.
HasSegment(f, seg) == f # << >> /\ \E i \in 1..Len(SegmentsOf(f)) : SegmentsOf(f)[i] = seg

\* C28: after Backspace deleted the selected object with no gesture in
\* progress, and with no user input after it, the location is eventually a
\* fragment without the segment of the deleted object.
C28_EventuallyRewritten ==
  (srcView.deleted # NULL /\ ~srcView.gesture /\ budget = 0 /\ ~isDragging)
    ~> ~HasSegment(location, srcView.deleted)

\* C28, the immediate part: Backspace removes the object and clears the selection.
C28_RemovedAndCleared ==
  [][srcView' # srcView =>
       /\ selectedObjectId' = 0
       /\ \A i \in 1..Len(objects') : objects'[i].id # selectedObjectId]_vars

MetaTag(attr, val, contentFirst, content) ==
  [attr |-> attr, val |-> val, contentFirst |-> contentFirst, content |-> content]

\* The regular expressions of extractPreviewImage in their order: for each
\* name, first the one with the content after the name, then the one with
\* the content before it.
patterns ==
  << [attr |-> "property", val |-> "og:image:secure_url", contentFirst |-> FALSE],
     [attr |-> "property", val |-> "og:image:secure_url", contentFirst |-> TRUE],
     [attr |-> "property", val |-> "og:image", contentFirst |-> FALSE],
     [attr |-> "property", val |-> "og:image", contentFirst |-> TRUE],
     [attr |-> "name", val |-> "twitter:image", contentFirst |-> FALSE],
     [attr |-> "name", val |-> "twitter:image", contentFirst |-> TRUE],
     [attr |-> "itemprop", val |-> "image", contentFirst |-> FALSE],
     [attr |-> "itemprop", val |-> "image", contentFirst |-> TRUE] >>

\* html.match(re): the index of the leftmost tag the expression matches, 0 for none.
MatchTag(html, re) ==
  Bind({i \in 1..Len(html) : /\ html[i].attr = re.attr /\ html[i].val = re.val
                             /\ html[i].contentFirst = re.contentFirst}, LAMBDA hits :
    IF hits = {} THEN 0 ELSE Min(hits))

\* String.prototype.trim for spaces.
RECURSIVE trim(_)
trim(s) ==
  IF s = << >> THEN s
  ELSE IF Head(s) = " " THEN trim(Tail(s))
  ELSE IF s[Len(s)] = " " THEN trim(Sub(s, 1, Len(s) - 1))
  ELSE s

\* The loop over the patterns from pattern k on: raw, NULL when no pattern
\* gives a non-empty capture.
RECURSIVE FirstCapture(_, _)
FirstCapture(html, k) ==
  IF k > Len(patterns) THEN NULL
  ELSE Bind(MatchTag(html, patterns[k]), LAMBDA m :
         IF m # 0 /\ html[m].content # << >> THEN trim(html[m].content)
         ELSE FirstCapture(html, k + 1))

\* The position of "://" in s, 0 when s has no scheme.
SchemeEnd(s) ==
  Bind({i \in 2..(Len(s) - 2) : Sub(s, i, i + 2) = << ":", "/", "/" >> /\ \A k \in 1..(i - 1) : IsAlpha(s[k])},
       LAMBDA hits : IF hits = {} THEN 0 ELSE Min(hits))

\* An absolute URL in parts: [protocol, host, path]; path is '' when the URL
\* ends with the host.
UrlParts(s) ==
  Bind(SchemeEnd(s), LAMBDA e :
  Bind(Sub(s, e + 3, Len(s)), LAMBDA rest :
  Bind({i \in 1..Len(rest) : rest[i] = "/"}, LAMBDA slashes :
    [protocol |-> Sub(s, 1, e),
     host |-> IF slashes = {} THEN rest ELSE Sub(rest, 1, Min(slashes) - 1),
     path |-> IF slashes = {} THEN << >> ELSE Sub(rest, Min(slashes), Len(rest))])))

\* new URL(raw, base).toString() for lower-case URLs without dot segments,
\* query or fragment: an absolute raw is serialised with a path of at least
\* '/', a raw that starts with '/' replaces the path of the base, any other
\* raw replaces the last segment of it.
UrlToString(raw, base) ==
  Bind(UrlParts(base), LAMBDA b :
  Bind(b.protocol \o << "/", "/" >> \o b.host, LAMBDA origin :
    IF SchemeEnd(raw) # 0
      THEN (IF UrlParts(raw).path = << >> THEN raw \o << "/" >> ELSE raw)
    ELSE IF StartsWith(raw, << "/" >>) THEN origin \o raw
    ELSE Bind(IF b.path = << >> THEN << "/" >> ELSE b.path, LAMBDA path :
           origin \o Sub(path, 1, Max({i \in 1..Len(path) : path[i] = "/"})) \o raw)))

\* extractPreviewImage(html, pageUrl) for a page URL that new URL accepts.
extractPreviewImage(html, pageUrl) ==
  Bind(FirstCapture(html, 1), LAMBDA raw :
    IF ~Truthy(raw) THEN NULL
    ELSE UrlToString(IF StartsWith(raw, << "/", "/" >>) THEN UrlParts(pageUrl).protocol \o raw ELSE raw,
                     pageUrl))

\* Meta tags of the pages: an absolute og:image, an og:image without
\* content, a root-relative secure_url with the content first, a
\* protocol-relative twitter:image, a relative itemprop image, a tag of
\* another name, an absolute og:image that ends with the host.
PreviewTags ==
  { MetaTag("property", "og:image", FALSE, << "h", "t", "t", "p", "s", ":", "/", "/", "e", "x", "a", "m", "p", "l", "e", ".", "c", "o", "m", "/", "i", "m", "g", "/", "c", "o", "v", "e", "r", ".", "p", "n", "g" >>),
    MetaTag("property", "og:image", FALSE, << >>),
    MetaTag("property", "og:image:secure_url", TRUE, << "/", "i", "m", "g", "/", "c", "o", "v", "e", "r", ".", "p", "n", "g" >>),
    MetaTag("name", "twitter:image", FALSE, << "/", "/", "c", "d", "n", ".", "e", "x", "a", "m", "p", "l", "e", ".", "c", "o", "m", "/", "p", "/", "c", "o", "v", "e", "r", ".", "p", "n", "g" >>),
    MetaTag("itemprop", "image", FALSE, << "i", "m", "g", "/", "c", ".", "p", "n", "g" >>),
    MetaTag("property", "og:title", FALSE, << "t" >>),
    MetaTag("property", "og:image", FALSE, << "h", "t", "t", "p", "s", ":", "/", "/", "e", "x", "a", "m", "p", "l", "e", ".", "c", "o", "m" >>) }

PageUrls == { << "h", "t", "t", "p", "s", ":", "/", "/", "e", "x", "a", "m", "p", "l", "e", ".", "c", "o", "m", "/", "n", "i", "b", "a", "l", "/" >>, << "h", "t", "t", "p", "s", ":", "/", "/", "e", "x", "a", "m", "p", "l", "e", ".", "c", "o", "m", "/", "p", "a", "g", "e" >> }

InitPreview ==
  /\ pc = "fetched"
  /\ \E html \in Lists(PreviewTags, MaxSceneLen), pageUrl \in PageUrls :
       /\ srcObjects = html
       /\ frag = pageUrl
  /\ srcView = [result |-> NULL]
  /\ localStorage = << >> /\ storageFails = FALSE /\ ephemeralTokens = << >>
  /\ storageFull = FALSE
  /\ viewportX = 0 /\ viewportY = 0 /\ zoom = Unit
  /\ objects = << >> /\ nextId = 1
  /\ selectedObjectId = 0
  /\ lastSerializedHash = << >> /\ hashUpdateHandle = FALSE /\ suppressHash = FALSE
  /\ hashDirty = FALSE /\ skipNextHashWrite = FALSE /\ readyForHashWrites = TRUE
  /\ initialFitDone = FALSE /\ restoredFromHash = FALSE /\ wheelFlushHandle = FALSE
  /\ isDragging = FALSE /\ isPanningCanvas = FALSE /\ dragTarget = 0
  /\ viewAnimation = NoAnimation
  /\ effectDirty = FALSE /\ location = << >> /\ hashchangeQueued = 0
  /\ raised = FALSE
  /\ writes = 0 /\ writeLog = << >> /\ gestureLog = << >> /\ windowLog = << >>
  /\ clearLog = << >> /\ budget = 0

\* extractPreviewImage(html, pageUrl) is called on the fetched page.
ExtractPreview ==
  /\ pc = "fetched"
  /\ srcView' = [result |-> extractPreviewImage(srcObjects, frag)]
  /\ pc' = "extracted"
  /\ UNCHANGED << signals, nextId, lastSerializedHash, initialFitDone, effectDirty, raised,
                  frag, srcObjects, codecFixed >>

SpecPreview == InitPreview /\ [][ExtractPreview]_vars

\* The names of the preview tags in their priority.
PreviewNames ==
  << [attr |-> "property", val |-> "og:image:secure_url"], [attr |-> "property", val |-> "og:image"],
     [attr |-> "name", val |-> "twitter:image"], [attr |-> "itemprop", val |-> "image"] >>

\* The tags of html that have a non-empty content and one of the names, as
\* pairs << priority, position >>.
PreviewCandidates(html) ==
  { << p, i >> \in (1..Len(PreviewNames)) \X (1..Len(html)) :
      /\ html[i].attr = PreviewNames[p].attr /\ html[i].val = PreviewNames[p].val
      /\ html[i].content # << >> }

\* The first of them: the highest priority, and in it the first of the page.
FirstCandidate(html) ==
  CHOOSE c \in PreviewCandidates(html) :
    \A d \in PreviewCandidates(html) : c[1] < d[1] \/ (c[1] = d[1] /\ c[2] <= d[2])

\* The content c against the page URL: an absolute URL as it is.
ResolvedContent(c, pageUrl) ==
  IF SchemeEnd(c) # 0 THEN c
  ELSE IF StartsWith(c, << "/", "/" >>) THEN UrlParts(pageUrl).protocol \o c
  ELSE UrlToString(c, pageUrl)

\* C30: extractPreviewImage returns the content of the first meta tag with
\* non-empty content in the priority og:image:secure_url, og:image,
\* twitter:image, itemprop=image, resolved against the page URL with an
\* absolute URL unchanged, and null when the page has no such tag.
C30_FirstNonEmpty ==
  (pc = "extracted") =>
    srcView.result =
      (IF PreviewCandidates(srcObjects) = {} THEN NULL
       ELSE ResolvedContent(srcObjects[FirstCandidate(srcObjects)[2]].content, frag))

\* C30 on the pages that have no two tags of one name and no absolute URL
\* that ends with its host.
C30_OneTagPerName ==
  (/\ pc = "extracted"
   /\ \A i, j \in 1..Len(srcObjects) :
        (i # j) => (srcObjects[i].val # srcObjects[j].val)
   /\ \A i \in 1..Len(srcObjects) :
        SchemeEnd(srcObjects[i].content) # 0 => UrlParts(srcObjects[i].content).path # << >>) =>
    srcView.result =
      (IF PreviewCandidates(srcObjects) = {} THEN NULL
       ELSE ResolvedContent(srcObjects[FirstCandidate(srcObjects)[2]].content, frag))

\* ------------------------------------------------------------------------
\* The length guard of the hashchange listener
\* ------------------------------------------------------------------------

MaxPieces == 4

\* A name, two transform blocks, a block with an unparseable number, a block
\* of three numbers, and the empty text.
ScanPieces ==
  { << "a" >>, << "1", ",", "2", ",", "3", ",", "4" >>, << "5", ",", "6", ",", "7", ".", "5", ",", "-", "8" >>, << "1", ",", "x", ",", "3", ",", "4" >>, << "1", ",", "2", ",", "3" >>, << >> }

ScanSegments == { Join(l, "/") : l \in Lists(ScanPieces, MaxPieces) \ { << >> } }

InitScan ==
  /\ pc = "split"
  /\ frag \in ScanSegments
  /\ srcObjects = << >>
  /\ srcView = [found |-> FALSE, encodedRef |-> << >>, transformPart |-> << >>, flagsPart |-> << >>]
  /\ localStorage = << >> /\ storageFails = FALSE /\ ephemeralTokens = << >>
  /\ storageFull = FALSE
  /\ viewportX = 0 /\ viewportY = 0 /\ zoom = Unit
  /\ objects = << >> /\ nextId = 1
  /\ selectedObjectId = 0
  /\ lastSerializedHash = << >> /\ hashUpdateHandle = FALSE /\ suppressHash = FALSE
  /\ hashDirty = FALSE /\ skipNextHashWrite = FALSE /\ readyForHashWrites = TRUE
  /\ initialFitDone = FALSE /\ restoredFromHash = FALSE /\ wheelFlushHandle = FALSE
  /\ isDragging = FALSE /\ isPanningCanvas = FALSE /\ dragTarget = 0
  /\ viewAnimation = NoAnimation
  /\ effectDirty = FALSE /\ location = << >> /\ hashchangeQueued = 0
  /\ raised = FALSE
  /\ writes = 0 /\ writeLog = << >> /\ gestureLog = << >> /\ windowLog = << >>
  /\ clearLog = << >> /\ budget = 0

\* The scan of applyHashState runs on the segment.
Scan ==
  /\ pc = "split"
  /\ srcView' = ScanSegment(frag)
  /\ pc' = "scanned"
  /\ UNCHANGED << signals, nextId, lastSerializedHash, initialFitDone, effectDirty, raised,
                  frag, srcObjects, codecFixed >>

SpecScan == InitScan /\ [][Scan]_vars

\* The pairs << a, b >> of consecutive slashes of the segment that enclose
\* exactly 4 comma-separated parseable numbers.
BlockPairs(segment) ==
  { ab \in (1..Len(segment)) \X (1..Len(segment)) :
      /\ ab[1] < ab[2] /\ segment[ab[1]] = "/" /\ segment[ab[2]] = "/"
      /\ \A k \in (ab[1] + 1)..(ab[2] - 1) : segment[k] # "/"
      /\ IsTransformBlock(Sub(segment, ab[1] + 1, ab[2] - 1)) }

RightmostPair(segment) ==
  CHOOSE ab \in BlockPairs(segment) : \A cd \in BlockPairs(segment) : cd[1] <= ab[1]

\* The segment is read with the pair ab: reference before, flags after.
ReadWith(r, segment, ab) ==
  /\ r.found
  /\ r.encodedRef = Sub(segment, 1, ab[1] - 1)
  /\ r.transformPart = Sub(segment, ab[1] + 1, ab[2] - 1)
  /\ r.flagsPart = Sub(segment, ab[2] + 1, Len(segment))

\* C32 as stated: the scan reads every segment with its rightmost transform
\* block, everything before it as reference and everything after it as
\* flags, and drops the segment when it has no such block.
C32_RightmostBlock ==
  (pc = "scanned") =>
     IF BlockPairs(frag) = {} THEN ~srcView.found
     ELSE ReadWith(srcView, frag, RightmostPair(frag))

\* C32: the scan reads a segment with its rightmost transform block,
\* everything before it as reference and everything after it as flags, and
\* drops the segment when it has no such block or when nothing stands before
\* the block.
C32_RightmostBlockWithRef ==
  (pc = "scanned") =>
     IF BlockPairs(frag) = {} \/ RightmostPair(frag)[1] = 1 THEN ~srcView.found
     ELSE ReadWith(srcView, frag, RightmostPair(frag))

\* A segment with two blocks was read with the second one; the reference has
\* a slash in it.
C32_Witness ==
  /\ pc = "scanned"
  /\ Cardinality(BlockPairs(frag)) = 2
  /\ srcView.found
  /\ Positions(srcView.encodedRef, "/") # << >>

\* ------------------------------------------------------------------------
\* Suppression during gestures
\* ------------------------------------------------------------------------

\* C33: whenever a drag or a canvas pan is in progress, or a wheel gesture
\* is not flushed yet, suppressHash is true.
C33_SuppressedDuringGesture ==
  (isDragging \/ isPanningCanvas \/ wheelFlushHandle) => suppressHash

\* ------------------------------------------------------------------------
\* The timers of the controller in the browser's timer table
\* ------------------------------------------------------------------------

\* Timers one session sets.
MaxTimers == 4

\* window.clearTimeout that leaves the timer pending.
clearTimeoutLost(pending, handle) == pending

\* window.clearTimeout(handle): the pending timers after it.
clearTimeout(pending, handle) == pending \ {handle}

\* The timer table t: the pending debounce timers (hash) and wheel flush
\* timers (wheel) by id, the two handle fields (0 for null), the id the next
\* setTimeout returns, and whether a pending timer of each kind was cleared.
NoTimers ==
  [hash |-> {}, wheel |-> {}, hashHandle |-> 0, wheelHandle |-> 0, nextTimer |-> 1,
   clearedHash |-> FALSE, clearedWheel |-> FALSE]

\* The tail of scheduleHashUpdate: if (this.hashUpdateHandle) clearTimeout;
\* this.hashUpdateHandle = setTimeout(...)
ArmHashTimer(t) ==
  [t EXCEPT !.hash = (IF t.hashHandle # 0 THEN clearTimeout(t.hash, t.hashHandle) ELSE t.hash)
                       \cup {t.nextTimer},
            !.hashHandle = t.nextTimer,
            !.nextTimer = t.nextTimer + 1,
            !.clearedHash = t.clearedHash \/ t.hashHandle \in t.hash]

\* The tail of onWheel: if (this.wheelFlushHandle) clearTimeout;
\* this.wheelFlushHandle = setTimeout(...)
ArmWheelTimer(t) ==
  [t EXCEPT !.wheel = (IF t.wheelHandle # 0 THEN clearTimeout(t.wheel, t.wheelHandle) ELSE t.wheel)
                        \cup {t.nextTimer},
            !.wheelHandle = t.nextTimer,
            !.nextTimer = t.nextTimer + 1,
            !.clearedWheel = t.clearedWheel \/ t.wheelHandle \in t.wheel]

\* scheduleHashUpdate() on the timer table.
timersScheduleHashUpdate(t, skip, ready, suppress) ==
  IF skip \/ ~ready \/ suppress THEN t ELSE ArmHashTimer(t)

timersFixed == << store, readyForHashWrites, initialFitDone, restoredFromHash, viewAnimation,
                 raised, pc, frag, srcObjects, hist, budget, isPanningCanvas, hashchangeQueued >>

InitTimers ==
  /\ pc = "timers"
  /\ srcView = NoTimers
  /\ frag = << >> /\ srcObjects = << >>
  /\ localStorage = << >> /\ storageFails = FALSE /\ ephemeralTokens = << >>
  /\ storageFull = FALSE
  /\ viewportX = 0 /\ viewportY = 0 /\ zoom = Unit
  /\ objects = << >> /\ nextId = 1
  /\ selectedObjectId = 0
  /\ lastSerializedHash = << >> /\ hashUpdateHandle = FALSE /\ suppressHash = FALSE
  /\ hashDirty = FALSE /\ skipNextHashWrite = FALSE /\ readyForHashWrites = TRUE
  /\ initialFitDone = FALSE /\ restoredFromHash = FALSE /\ wheelFlushHandle = FALSE
  /\ isDragging = FALSE /\ isPanningCanvas = FALSE /\ dragTarget = 0
  /\ viewAnimation = NoAnimation
  /\ effectDirty = FALSE /\ location = << >> /\ hashchangeQueued = 0
  /\ raised = FALSE
  /\ writes = 0 /\ writeLog = << >> /\ gestureLog = << >> /\ windowLog = << >>
  /\ clearLog = << >> /\ budget = 0

\* The flags and the table after a call of scheduleHashUpdate.
TimersScheduled(suppress) ==
  /\ srcView.nextTimer <= MaxTimers
  /\ \E r \in {scheduleHashUpdate(skipNextHashWrite, readyForHashWrites, suppress, hashDirty,
                                  hashUpdateHandle)} :
       /\ skipNextHashWrite' = r.skip
       /\ hashDirty' = r.dirty
  /\ srcView' = timersScheduleHashUpdate(srcView, skipNextHashWrite, readyForHashWrites, suppress)
  /\ hashUpdateHandle' = (srcView'.hashHandle # 0)

\* A URL is pasted: addObject.
timersOnPaste ==
  /\ Len(objects) < MaxObjects
  /\ objects' = Append(objects, UrlObject(nextId, U1, 0, 0))
  /\ nextId' = nextId + 1
  /\ selectedObjectId' = nextId
  /\ effectDirty' = TRUE
  /\ TimersScheduled(suppressHash)
  /\ UNCHANGED << viewportX, viewportY, zoom, lastSerializedHash, suppressHash, wheelFlushHandle,
                  isDragging, dragTarget, location, timersFixed >>

\* The hash-sync effect runs.
timersEffectRun ==
  /\ effectDirty
  /\ effectDirty' = FALSE
  /\ TimersScheduled(suppressHash)
  /\ UNCHANGED << signals, nextId, lastSerializedHash, suppressHash, wheelFlushHandle,
                  isDragging, dragTarget, location, timersFixed >>

\* mousedown on an object: a drag starts.
timersOnObjectMouseDown(objectId) ==
  /\ ~isDragging
  /\ isDragging' = TRUE
  /\ suppressHash' = TRUE
  /\ dragTarget' = objectId
  /\ selectedObjectId' = objectId
  /\ effectDirty' = (effectDirty \/ selectedObjectId # objectId)
  /\ UNCHANGED << viewportX, viewportY, zoom, objects, nextId, lastSerializedHash,
                  hashUpdateHandle, hashDirty, skipNextHashWrite, wheelFlushHandle, location,
                  srcView, timersFixed >>

\* mouseup of the drag.
timersObjectMouseUp ==
  /\ isDragging
  /\ isDragging' = FALSE
  /\ suppressHash' = FALSE
  /\ IF hashDirty THEN TimersScheduled(FALSE)
     ELSE UNCHANGED << skipNextHashWrite, hashDirty, srcView, hashUpdateHandle >>
  /\ UNCHANGED << signals, nextId, lastSerializedHash, wheelFlushHandle, dragTarget,
                  effectDirty, location, timersFixed >>

\* A wheel event.
timersOnWheel ==
  /\ srcView.nextTimer <= MaxTimers
  /\ suppressHash' = TRUE
  /\ zoom' = ClampZoom((zoom * 11) \div 10)
  /\ effectDirty' = TRUE
  /\ srcView' = ArmWheelTimer(srcView)
  /\ wheelFlushHandle' = TRUE
  /\ UNCHANGED << viewportX, viewportY, objects, selectedObjectId, nextId, lastSerializedHash,
                  hashUpdateHandle, hashDirty, skipNextHashWrite, isDragging, dragTarget,
                  location, timersFixed >>

\* The wheel flush timer id fires.
timersWheelFlushFires(id) ==
  /\ id \in srcView.wheel
  /\ suppressHash' = FALSE
  /\ \E t \in {[srcView EXCEPT !.wheel = @ \ {id}]} :
       IF hashDirty
         THEN /\ t.nextTimer <= MaxTimers
              /\ \E r \in {scheduleHashUpdate(skipNextHashWrite, readyForHashWrites, FALSE,
                                              hashDirty, hashUpdateHandle)} :
                   /\ skipNextHashWrite' = r.skip
                   /\ hashDirty' = r.dirty
              /\ srcView' = [timersScheduleHashUpdate(t, skipNextHashWrite, readyForHashWrites,
                                                      FALSE) EXCEPT !.wheelHandle = 0]
         ELSE /\ srcView' = [t EXCEPT !.wheelHandle = 0]
              /\ UNCHANGED << skipNextHashWrite, hashDirty >>
  /\ hashUpdateHandle' = (srcView'.hashHandle # 0)
  /\ wheelFlushHandle' = FALSE
  /\ UNCHANGED << signals, nextId, lastSerializedHash, isDragging, dragTarget, effectDirty,
                  location, timersFixed >>

\* The debounce timer id fires.
timersHashTimerFires(id) ==
  /\ id \in srcView.hash
  /\ \E prefixedHash \in {CurrentPrefixed} :
       IF writeIfChanged(prefixedHash, lastSerializedHash)
         THEN location' = prefixedHash /\ lastSerializedHash' = prefixedHash
         ELSE UNCHANGED << location, lastSerializedHash >>
  /\ hashDirty' = FALSE
  /\ srcView' = [srcView EXCEPT !.hash = @ \ {id}, !.hashHandle = 0]
  /\ hashUpdateHandle' = FALSE
  /\ UNCHANGED << signals, nextId, suppressHash, skipNextHashWrite, wheelFlushHandle,
                  isDragging, dragTarget, effectDirty, timersFixed >>

NextTimers ==
  \/ timersOnPaste
  \/ timersEffectRun
  \/ \E i \in 1..Len(objects) : timersOnObjectMouseDown(objects[i].id)
  \/ timersObjectMouseUp
  \/ timersOnWheel
  \/ \E id \in 1..MaxTimers : timersWheelFlushFires(id)
  \/ \E id \in 1..MaxTimers : timersHashTimerFires(id)

SpecTimers == InitTimers /\ [][NextTimers]_vars

\* C34: at most one debounce timer and at most one wheel flush timer are
\* pending, and a pending timer is the one its handle field names: the timer
\* a new one replaced is no longer pending.
C34_NeverStacked ==
  /\ Cardinality(srcView.hash) <= 1 /\ srcView.hash \subseteq {srcView.hashHandle}
  /\ Cardinality(srcView.wheel) <= 1 /\ srcView.wheel \subseteq {srcView.wheelHandle}

\* A pending debounce timer and a pending wheel flush timer were both
\* replaced, and one of each is pending again.
C34_Witness ==
  /\ srcView.clearedHash /\ srcView.clearedWheel
  /\ srcView.hash # {} /\ srcView.wheel # {}

\* ------------------------------------------------------------------------
\* Preview results that arrive late
\* ------------------------------------------------------------------------

\* The preview state: the two fit flags of the controller and the ids whose
\* preview result is still on its way.
Previews(fit, timeout, inFlight) ==
  [pendingFitAfterImageLoad |-> fit, pendingInitialFitTimeout |-> timeout, inFlight |-> inFlight]

\* The state after the constructor and its render callback ran on a page
\* without fragment and with a shareUrl parameter: addUrlObject added the
\* object, asked for its preview and armed the fallback fit.
InitLate ==
  /\ pc = "ready"
  /\ objects = << addUrlObject(1, U1, Unit) >> /\ nextId = 2
  /\ selectedObjectId = 1
  /\ srcView = Previews(TRUE, TRUE, {1})
  /\ frag = << >> /\ srcObjects = << >>
  /\ viewportX = 0 /\ viewportY = 0 /\ zoom = Unit
  /\ localStorage = << >> /\ storageFails = FALSE /\ ephemeralTokens = << >>
  /\ storageFull = FALSE
  /\ lastSerializedHash = << >> /\ hashUpdateHandle = TRUE /\ suppressHash = FALSE
  /\ hashDirty = FALSE /\ skipNextHashWrite = FALSE /\ readyForHashWrites = TRUE
  /\ initialFitDone = FALSE /\ restoredFromHash = FALSE /\ wheelFlushHandle = FALSE
  /\ isDragging = FALSE /\ isPanningCanvas = FALSE /\ dragTarget = 0
  /\ viewAnimation = NoAnimation
  /\ effectDirty = TRUE /\ location = << >> /\ hashchangeQueued = 0
  /\ raised = FALSE
  /\ writes = 0
  /\ writeLog = NoWrite
  /\ gestureLog = NoGesture
  /\ windowLog = Window(0, TRUE)
  /\ clearLog = NoClear
  /\ budget = MaxEvents

\* A URL is pasted: the object is added and fetchOgImage is called for it.
lateOnPaste(url) ==
  /\ budget > 0
  /\ Len(objects) < MaxObjects
  /\ addObject(UrlObject(nextId, url, 0, 0))
  /\ nextId' = nextId + 1
  /\ srcView' = [srcView EXCEPT !.inFlight = @ \cup {nextId}]
  /\ budget' = budget - 1
  /\ LogMutation(MarksDirty)
  /\ raised' = FALSE
  /\ UNCHANGED << viewportX, viewportY, zoom, lastSerializedHash, suppressHash, initialFitDone,
                  wheelFlushHandle, gest, location, hashchangeQueued, store, readyForHashWrites,
                  restoredFromHash, pc, frag, srcObjects, viewAnimation >>

\* The view animateFitToContent() puts the viewport at before the animation:
\* the appear position when the list has bounds, the current view otherwise.
AppearView(objs) ==
  IF objs = << >> THEN [zoom |-> zoom, viewportX |-> viewportX, viewportY |-> viewportY]
  ELSE Bind(computeFitToViewTargets(objs), LAMBDA targets :
       Bind(calculateCompositionBounds(objs), LAMBDA bounds :
         [zoom |-> targets.zoom \div 2,
          viewportX |-> 0 - Times(bounds.width, targets.zoom),
          viewportY |-> getVisibleViewportMetrics.centerY
                          - Times(bounds.y + bounds.height \div 2, targets.zoom) \div 2]))

\* updateObjectOgImage(objectId, ogImage), img.onload: the preview image og
\* of natural height / width = 0.5 was loaded.
updateObjectOgImage(objectId, og) ==
  /\ objectId \in srcView.inFlight
  /\ objects' = [i \in 1..Len(objects) |->
                   IF objects[i].id = objectId
                     THEN [objects[i] EXCEPT !.ogImage = og, !.width = 600 * Unit,
                                             !.height = 300 * Unit,
                                             !.originalAspectRatio = Unit \div 2,
                                             !.displayMode = IMAGE]
                     ELSE objects[i]]
  /\ Scheduled(scheduleHashUpdate(skipNextHashWrite, readyForHashWrites, suppressHash,
                                  hashDirty, hashUpdateHandle))
  /\ effectDirty' = TRUE
  /\ srcView' = Previews(FALSE, FALSE, srcView.inFlight \ {objectId})
  /\ IF srcView.pendingFitAfterImageLoad
       THEN \E from \in {AppearView(objects')} :
              /\ zoom' = from.zoom /\ viewportX' = from.viewportX /\ viewportY' = from.viewportY
              /\ animateToView(from, computeFitToViewTargets(objects'))
       ELSE UNCHANGED << viewportX, viewportY, zoom, viewAnimation >>
  /\ LogMutation(MarksDirty)
  /\ raised' = FALSE
  /\ UNCHANGED << selectedObjectId, nextId, lastSerializedHash, suppressHash, initialFitDone,
                  wheelFlushHandle, gest, location, hashchangeQueued, store, readyForHashWrites,
                  restoredFromHash, pc, frag, srcObjects, budget >>

\* updateObjectOgImage(objectId, ogImage), img.onerror: the preview image
\* did not load.
updateObjectOgImageError(objectId, og) ==
  /\ objectId \in srcView.inFlight
  /\ objects' = [i \in 1..Len(objects) |->
                   IF objects[i].id = objectId THEN [objects[i] EXCEPT !.ogImage = og]
                   ELSE objects[i]]
  /\ effectDirty' = TRUE
  /\ srcView' = [srcView EXCEPT !.inFlight = @ \ {objectId}]
  /\ LogMutation(FALSE)
  /\ raised' = FALSE
  /\ UNCHANGED << viewportX, viewportY, zoom, selectedObjectId, nextId, ctl, gest, location,
                  hashchangeQueued, store, pc, frag, srcObjects, viewAnimation, budget >>

\* The fallback fit of the shareUrl object: 1500 ms passed without a preview.
InitialFitTimeoutFires ==
  /\ srcView.pendingInitialFitTimeout
  /\ srcView' = [srcView EXCEPT !.pendingInitialFitTimeout = FALSE]
  /\ \E from \in {AppearView(objects)} :
       /\ ViewSet(from)
       /\ animateToView(from, computeFitToViewTargets(objects))
  /\ LogMutation(FALSE)
  /\ raised' = FALSE
  /\ UNCHANGED << objects, selectedObjectId, nextId, ctl, gest, location, hashchangeQueued,
                  store, pc, frag, srcObjects, budget >>

NextLate ==
  \/ lateOnPaste(U2)
  \/ onKeyDown
  \/ \E id \in 1..(MaxObjects + MaxEvents) : updateObjectOgImage(id, OG1)
  \/ \E id \in 1..(MaxObjects + MaxEvents) : updateObjectOgImageError(id, OG1)
  \/ InitialFitTimeoutFires
  \/ AnimationFrame(Unit)
  \/ EffectRun
  \/ HashTimerFires

SpecLate == InitLate /\ [][NextLate]_vars

\* C35: a step in which the preview result of an object that is no longer
\* in the list arrives leaves the objects, the viewport and the location as
\* they are.
C35_LateResultIgnored ==
  [][\A id \in srcView.inFlight :
       (/\ srcView'.inFlight = srcView.inFlight \ {id}
        /\ \A i \in 1..Len(objects) : objects[i].id # id) =>
         UNCHANGED << objects, viewportX, viewportY, zoom, location >>]_vars

\* The part of C35 about the objects: the late result changes no object.
C35_LateResultKeepsObjects ==
  [][\A id \in srcView.inFlight :
       (/\ srcView'.inFlight = srcView.inFlight \ {id}
        /\ \A i \in 1..Len(objects) : objects[i].id # id) =>
         UNCHANGED << objects, location >>]_vars

\* ------------------------------------------------------------------------
\* The frame app: objects that are not persisted
\* ------------------------------------------------------------------------

FrameEmpty == << "f", "r", "a", "m", "e", "-", "e", "m", "p", "t", "y" >>

FramePlaceholder == << "f", "r", "a", "m", "e", "-", "p", "l", "a", "c", "e", "h", "o", "l", "d", "e", "r" >>

\* The name of the file the user uploads into the frame.
FrameFile == << "f", ".", "p", "n", "g" >>

\* Math.round(v) for v >= 0, in ten-thousandths.
RoundUnits(v) == ((v + Unit \div 2) \div Unit) * Unit

\* Math.round(Math.sqrt(n)) for a whole n >= 0.
RoundSqrt(n) == CHOOSE r \in 0..2000 : (2 * r - 1) * (2 * r - 1) <= 4 * n /\ 4 * n < (2 * r + 1) * (2 * r + 1)

\* The first object that is no frame object; the caller checks there is one.
FrameBase(objs) == objs[Min({i \in 1..Len(objs) : ~objs[i].isFrameObject})]

\* createEmptyFrame(): the placeholder next to base, with id.
NewEmptyFrame(id, base) ==
  [id |-> id, type |-> IMAGE,
   x |-> base.x + RoundUnits(Times(base.width, 7000)),
   y |-> base.y + RoundUnits(Times(base.height, 3000)),
   width |-> base.width, height |-> base.height, rotation |-> 0,
   content |-> FramePlaceholder, sourceRef |-> FrameEmpty,
   originalAspectRatio |-> Quotient(base.height, base.width),
   ogImage |-> NULL, displayMode |-> IMAGE, isEmptyFrame |-> TRUE, isFrameObject |-> TRUE]

\* The user picks the app 'frame': an empty frame is created when there is
\* none and an object to pair it with, and the view is fitted after the
\* next render.
onAppChangeFrame ==
  /\ budget > 0
  /\ Len(objects) < MaxObjects
  /\ budget' = budget - 1
  /\ IF /\ Len(objects) > 0
        /\ \A i \in 1..Len(objects) : ~objects[i].isEmptyFrame
        /\ \E i \in 1..Len(objects) : ~objects[i].isFrameObject
       THEN /\ addObject(NewEmptyFrame(nextId, FrameBase(objects)))
            /\ nextId' = nextId + 1
            /\ animateToView([zoom |-> zoom, viewportX |-> viewportX, viewportY |-> viewportY],
                             computeFitToViewTargets(objects'))
       ELSE /\ animateToView([zoom |-> zoom, viewportX |-> viewportX, viewportY |-> viewportY],
                             computeFitToViewTargets(objects))
            /\ UNCHANGED << objects, selectedObjectId, nextId, skipNextHashWrite, hashDirty,
                            hashUpdateHandle, effectDirty >>
  /\ LogMutation(MarksDirty)
  /\ raised' = FALSE
  /\ UNCHANGED << viewportX, viewportY, zoom, lastSerializedHash, suppressHash, initialFitDone,
                  wheelFlushHandle, gest, location, hashchangeQueued, store,
                  readyForHashWrites, restoredFromHash, pc, codecIo >>

\* onEmptyFrameUpload(event, objectId), after the file was read and its
\* image loaded: a square image takes the place of the placeholder.
onEmptyFrameUpload(objectId) ==
  /\ \E i \in 1..Len(objects) : objects[i].id = objectId /\ objects[i].isEmptyFrame
  /\ \E area \in {IF \E i \in 1..Len(objects) : ~objects[i].isFrameObject
                    THEN (FrameBase(objects).width \div Unit) * (FrameBase(objects).height \div Unit)
                    ELSE 600 * 400} :
       objects' = [i \in 1..Len(objects) |->
                     IF objects[i].id = objectId
                       THEN [objects[i] EXCEPT !.content = Payload, !.sourceRef = FrameFile,
                                               !.displayMode = IMAGE, !.isEmptyFrame = FALSE,
                                               !.isFrameObject = TRUE,
                                               !.width = RoundSqrt(area) * Unit,
                                               !.height = RoundSqrt(area) * Unit,
                                               !.originalAspectRatio = Unit]
                       ELSE objects[i]]
  /\ effectDirty' = TRUE
  /\ animateToView([zoom |-> zoom, viewportX |-> viewportX, viewportY |-> viewportY],
                   computeFitToViewTargets(objects'))
  /\ LogMutation(FALSE)
  /\ raised' = FALSE
  /\ UNCHANGED << viewportX, viewportY, zoom, selectedObjectId, nextId, ctl, gest, location,
                  hashchangeQueued, budget, store, pc, codecIo >>

NextFrame ==
  \/ onPaste(U1, 0)
  \/ onAppChangeFrame
  \/ \E i \in 1..Len(objects) : onEmptyFrameUpload(objects[i].id)
  \/ onAppChange
  \/ onKeyDown
  \/ AnimationFrame(Unit)
  \/ EffectRun
  \/ HashTimerFires
  \/ onHashChange

SpecFrame == Init /\ [][NextFrame]_vars

\* The segments of the fragment f.
FragmentSegments(f) ==
  Bind(Split(Sub(f, 2, Len(f)), "#"), LAMBDA segs : { segs[k] : k \in 1..Len(segs) } \ { << >> })

\* No segment of f begins with the reference of an object of objs that is
\* flagged as placeholder frame or as frame-app object.
NoFlaggedSegment(f, objs) ==
  Bind(FragmentSegments(f), LAMBDA segs :
  Bind({ encodeURIComponent(objs[i].sourceRef) \o << "/" >> :
           i \in { k \in 1..Len(objs) : objs[k].isEmptyFrame \/ objs[k].isFrameObject } },
       LAMBDA refs :
    \A s \in segs : \A r \in refs : ~StartsWith(s, r)))

\* C36: the fragment a timer has just written to the location has no
\* segment of a flagged object of the list it was written from, and neither
\* has the serialization the hashchange listener compares the location with.
C36_FlaggedNotWritten ==
  /\ (windowLog.fired /\ windowLog.wrote) => NoFlaggedSegment(location, objects)
  /\ NoFlaggedSegment(CurrentPrefixed, objects)

\* The timer has just written the fragment of a list with a frame object in it.
C36_Witness ==
  /\ windowLog.fired /\ windowLog.wrote
  /\ \E i \in 1..Len(objects) : objects[i].isFrameObject
  /\ \E i \in 1..Len(objects) : ~objects[i].isFrameObject

\* ------------------------------------------------------------------------
\* A fresh session on a fragment the controller wrote
\* ------------------------------------------------------------------------

\* The state after the constructor ran on a page whose fragment F (frag) is
\* what the timer callback writes for a viewport and a scene of objects with
\* absolute URLs (srcView, srcObjects).
InitRestore ==
  /\ pc = "ready"
  /\ \E v \in CodecViews, l \in Lists(CodecObjects, MaxSceneLen) :
       \E F \in {Prefixed(serializeStateToHash(v.x, v.y, v.zoom, WithIds(l, 1)))} :
         /\ srcView = [x |-> v.x, y |-> v.y, zoom |-> v.zoom, from |-> "encode"]
         /\ srcObjects = WithIds(l, 1)
         /\ frag = F
         /\ location = F
         /\ Constructed(F)
  /\ localStorage = << >> /\ storageFails = FALSE /\ ephemeralTokens = << >>
  /\ storageFull = FALSE
  /\ hashUpdateHandle = FALSE /\ suppressHash = FALSE /\ hashDirty = FALSE
  /\ skipNextHashWrite = FALSE /\ readyForHashWrites = TRUE
  /\ initialFitDone = FALSE /\ wheelFlushHandle = FALSE
  /\ isDragging = FALSE /\ isPanningCanvas = FALSE /\ dragTarget = 0
  /\ viewAnimation = NoAnimation
  /\ effectDirty = TRUE
  /\ hashchangeQueued = 0 /\ raised = FALSE
  /\ writes = 0
  /\ writeLog = NoWrite
  /\ gestureLog = NoGesture
  /\ windowLog = Window(0, TRUE)
  /\ clearLog = NoClear
  /\ budget = 0

NextRestore ==
  \/ EffectRun
  \/ HashTimerFires
  \/ onHashChange

SpecRestore == InitRestore /\ [][NextRestore]_vars

\* C37: in a fresh session on a fragment F the controller wrote, the
\* debounce timer writes nothing: the location stays F.
C37_RestoreIsFixedPoint == writes = 0 /\ location = frag

\* C37 for the fragments written at the default viewport for a scene of
\* objects with pairwise distinct segments.
C37_FixedPointAtDefaultView ==
  (/\ << srcView.x, srcView.y, srcView.zoom >> = << 0, 0, Unit >>
   /\ DistinctSegments(srcObjects)) => (writes = 0 /\ location = frag)

\* ------------------------------------------------------------------------
\* A file drop in steps, and the purge of the first render
\* ------------------------------------------------------------------------

\* The drop in flight: nothing dropped yet, nothing purged yet.
NoDrop(before) ==
  [purged |-> FALSE, before |-> before, afterPurge |-> before, name |-> NULL, content |-> NULL,
   ref |-> NULL, stored |-> FALSE, id |-> 0]

DropFiles == { File1, File2 }

\* naturalHeight / naturalWidth of the dropped images: landscape, portrait.
AspectRatios == { 7500, 15000 }

InitDrop ==
  /\ pc = "idle"
  /\ \E ls \in PurgeStores, m \in StoreModes :
       /\ localStorage = ls /\ storageFails = m.fails /\ storageFull = m.full
       /\ srcView = NoDrop(ls)
  /\ \E l \in Lists(PurgeObjects, MaxSceneLen) :
       /\ objects = WithIds(l, 1)
       /\ srcObjects = objects
       /\ nextId = Len(l) + 1
  /\ ephemeralTokens = << >>
  /\ frag = << >>
  /\ viewportX = 0 /\ viewportY = 0 /\ zoom = Unit
  /\ selectedObjectId = 0
  /\ lastSerializedHash = << >> /\ hashUpdateHandle = FALSE /\ suppressHash = FALSE
  /\ hashDirty = FALSE /\ skipNextHashWrite = FALSE /\ readyForHashWrites = TRUE
  /\ initialFitDone = FALSE /\ restoredFromHash = (Len(objects) > 0) /\ wheelFlushHandle = FALSE
  /\ isDragging = FALSE /\ isPanningCanvas = FALSE /\ dragTarget = 0
  /\ viewAnimation = NoAnimation
  /\ effectDirty = TRUE /\ location = << >> /\ hashchangeQueued = 0
  /\ raised = FALSE
  /\ writes = 0 /\ writeLog = NoWrite /\ gestureLog = NoGesture
  /\ windowLog = Window(0, TRUE) /\ clearLog = NoClear
  /\ budget = 0

dropFixed == << viewportX, viewportY, zoom, nextId, lastSerializedHash, suppressHash,
                initialFitDone, wheelFlushHandle, gest, location, hashchangeQueued, storageFails,
                storageFull, readyForHashWrites, restoredFromHash, viewAnimation, frag, srcObjects,
                budget >>

\* The callback given to afterNextRender in the constructor: it runs at the
\* end of the tick that renders the canvas.
renderPurge ==
  /\ ~srcView.purged
  /\ localStorage' = cleanupOrphanedStorage(localStorage, storageFails, objects)
  /\ srcView' = [srcView EXCEPT !.purged = TRUE, !.afterPurge = localStorage']
  /\ raised' = FALSE
  /\ UNCHANGED << signals, ephemeralTokens, ctl, effectDirty, hist, pc, dropFixed >>

\* A drop event is delivered whenever the page takes events.
listenersAnytime(purged) == TRUE

\* The page takes a drop once the canvas is rendered; the render callbacks of
\* the constructor run in the tick of that render, before any event.
listenersAttached(purged) == purged

\* onDrop up to reader.readAsDataURL(file): an image file is dropped.
dropReadAsDataURL(filename, content) ==
  /\ pc = "idle"
  /\ listenersAttached(srcView.purged)
  /\ srcView' = [srcView EXCEPT !.name = filename, !.content = content]
  /\ pc' = "reading"
  /\ raised' = FALSE
  /\ UNCHANGED << signals, store, ctl, effectDirty, hist, dropFixed >>

\* reader.onload of onDrop: the payload goes to the content store, the image
\* starts to decode.
dropReaderOnload ==
  /\ pc = "reading"
  /\ \E d \in {deriveSourceRef(localStorage, storageFails, storageFull, ephemeralTokens,
                                srcView.content, srcView.name, Stamp(nextId))} :
       /\ localStorage' = d.ls /\ ephemeralTokens' = d.eph
       /\ srcView' = [srcView EXCEPT !.ref = d.ref, !.stored = ~(storageFails \/ storageFull)]
  /\ pc' = "decoding"
  /\ raised' = FALSE
  /\ UNCHANGED << signals, ctl, effectDirty, hist, dropFixed >>

\* The addObject call of img.onload and img.onerror.
dropAddObject(aspectRatio) ==
  /\ addObject([id |-> nextId, type |-> IMAGE, x |-> 0, y |-> 0,
                width |-> baseSize * Unit, height |-> baseSize * aspectRatio, rotation |-> 0,
                content |-> srcView.content, sourceRef |-> srcView.ref,
                originalAspectRatio |-> aspectRatio, ogImage |-> NULL, displayMode |-> IMAGE,
                isEmptyFrame |-> FALSE, isFrameObject |-> FALSE])
  /\ srcView' = [srcView EXCEPT !.id = nextId]
  /\ nextId' = nextId + 1
  /\ pc' = "added"
  /\ LogMutation(MarksDirty)
  /\ raised' = FALSE
  /\ UNCHANGED << viewportX, viewportY, zoom, lastSerializedHash, suppressHash, initialFitDone,
                  wheelFlushHandle, gest, location, hashchangeQueued, store, readyForHashWrites,
                  restoredFromHash, viewAnimation, frag, srcObjects, budget >>

\* img.onload of onDrop: the image decoded, with that height over width.
dropImgOnload(aspectRatio) ==
  /\ pc = "decoding"
  /\ dropAddObject(aspectRatio)

\* img.onerror of onDrop: a square.
dropImgOnerror ==
  /\ pc = "decoding"
  /\ dropAddObject(Unit)

NextDrop ==
  \/ renderPurge
  \/ \E n \in DropFiles, c \in DropPayloads : dropReadAsDataURL(n, c)
  \/ dropReaderOnload
  \/ \E a \in AspectRatios : dropImgOnload(a)
  \/ dropImgOnerror

SpecDrop == InitDrop /\ [][NextDrop]_vars

\* The object the drop added.
DroppedObject == CHOOSE o \in { objects[i] : i \in 1..Len(objects) } : o.id = srcView.id

RECURSIVE reflectFlagEntries(_)
reflectFlagEntries(entries) ==
  IF entries = << >> THEN << >>
  ELSE Bind(Split(Head(entries), ":"), LAMBDA kv :
         IF kv[1] = << >> \/ Len(kv) < 2 THEN << >>
         ELSE Bind(parseFloat(kv[2]), LAMBDA num :
                << [k |-> kv[1], isNum |-> ~num.nan, num |-> num.val,
                    str |-> IF num.nan THEN kv[2] ELSE << >>] >>))
       \o reflectFlagEntries(Tail(entries))

\* The k-th number of a transform part; a missing one is `undefined`, which
\* Number.isNaN does not take for NaN.
PartFloat(t, k) ==
  IF k <= Len(t) THEN [nan |-> parseFloat(t[k]).nan, undef |-> FALSE, val |-> parseFloat(t[k]).val]
  ELSE [nan |-> FALSE, undef |-> TRUE, val |-> 0]

\* One object segment of the sample-reflect decoder: [keep, undef, obj], obj
\* without its id.  undef: a number of the object is `undefined` or NaN.
reflectDecodeObject(ls, fails, eph, ref, transformPart, flagsPart) ==
  Bind(Split(transformPart, ","), LAMBDA t :
  Bind(IF flagsPart = << >> THEN << >> ELSE reflectFlagEntries(Split(flagsPart, ",")),
       LAMBDA flagMap :
  Bind(IF FlagHas(flagMap, << "r", "a", "t", "i", "o" >>) /\ FlagGet(flagMap, << "r", "a", "t", "i", "o" >>).isNum
         THEN FlagGet(flagMap, << "r", "a", "t", "i", "o" >>).num ELSE Unit, LAMBDA safeRatio :
  Bind(IF FlagHas(flagMap, << "t", "y", "p", "e" >>) THEN FlagString(FlagGet(flagMap, << "t", "y", "p", "e" >>)) ELSE IMAGE,
       LAMBDA type :
  Bind(baseSize * PartFloat(t, 3).val, LAMBDA width :
  Bind(resolveContent(ls, fails, eph, ref, type), LAMBDA resolved :
    IF \E k \in 1..4 : PartFloat(t, k).nan THEN [keep |-> FALSE, undef |-> FALSE, obj |-> << >>]
    ELSE IF ~Truthy(resolved) /\ type # IMAGE THEN [keep |-> FALSE, undef |-> FALSE, obj |-> << >>]
    ELSE [keep |-> TRUE,
          undef |-> \E k \in 1..4 : PartFloat(t, k).undef,
          obj |-> [type |-> type, x |-> PartFloat(t, 1).val, y |-> PartFloat(t, 2).val,
                   width |-> width, height |-> Times(width, safeRatio),
                   rotation |-> PartFloat(t, 4).val,
                   content |-> IF Truthy(resolved) THEN resolved ELSE transparentPixel,
                   sourceRef |-> ref, originalAspectRatio |-> safeRatio]]))))))

\* The loop of the sample-reflect decoder over the segments, each one cut by
\* split('/').  acc = [raise, undef, objs, vx, vy, vz].
RECURSIVE reflectDecodeSegments(_, _, _, _, _)
reflectDecodeSegments(ls, fails, eph, segments, acc) ==
  IF segments = << >> \/ acc.raise THEN acc
  ELSE reflectDecodeSegments(ls, fails, eph, Tail(segments),
         Bind(Split(Head(segments), "/"), LAMBDA parts :
           IF parts[1] = << >> \/ Len(parts) < 2 \/ parts[2] = << >> THEN acc
           ELSE Bind(decodeURIComponent(parts[1]), LAMBDA ref :
             IF ~ref.ok THEN [acc EXCEPT !.raise = TRUE]
             ELSE IF ref.str = CANVAS
               THEN Bind(Split(parts[2], ","), LAMBDA t :
                      [acc EXCEPT !.undef = @ \/ \E k \in 1..3 : PartFloat(t, k).undef,
                                  !.vx = IF PartFloat(t, 1).nan THEN @ ELSE PartFloat(t, 1).val,
                                  !.vy = IF PartFloat(t, 2).nan THEN @ ELSE PartFloat(t, 2).val,
                                  !.vz = IF PartFloat(t, 3).nan \/ PartFloat(t, 3).undef THEN @
                                         ELSE ClampZoom(PartFloat(t, 3).val)])
             ELSE Bind(reflectDecodeObject(ls, fails, eph, ref.str, parts[2],
                                           IF Len(parts) < 3 THEN << >> ELSE parts[3]),
                       LAMBDA o :
                      [acc EXCEPT !.undef = @ \/ o.undef,
                                  !.objs = IF o.keep THEN Append(@, o.obj) ELSE @]))))

\* applyHashState of the sample-reflect canvas up to the assignments to the
\* signals: [early, raise, undef, vx, vy, vz, objs].
reflectDecodeHash(ls, fails, eph, hash, vx, vy, vz) ==
  Bind(FilterNonEmpty(Split(Sub(hash, 2, Len(hash)), "#")), LAMBDA segments :
    IF Len(hash) <= 1 \/ segments = << >>
      THEN [early |-> TRUE, raise |-> FALSE, undef |-> FALSE, vx |-> vx, vy |-> vy, vz |-> vz,
            objs |-> << >>]
      ELSE Bind(reflectDecodeSegments(ls, fails, eph, segments,
                  [raise |-> FALSE, undef |-> FALSE, objs |-> << >>, vx |-> vx, vy |-> vy,
                   vz |-> vz]),
                LAMBDA acc :
             [early |-> FALSE, raise |-> acc.raise, undef |-> acc.undef, vx |-> acc.vx,
              vy |-> acc.vy, vz |-> acc.vz, objs |-> acc.objs]))

\* Images and pages without mode and og: a pasted page, a turned image of a
\* URL, a dropped image whose payload this device does not hold.
AgreeObjects ==
  { CodecObject(IFRAME, U1, 123456, -70000, 600 * Unit, 400 * Unit, 0, NULL, IMAGE),
    CodecObject(IMAGE, U2, -123455, 1000000, 1234567, 925925, 455000, NULL, IMAGE),
    CodecObject(IMAGE, File1, 14, -15, 200 * Unit, 150 * Unit, -900000, NULL, IMAGE) }

InitAgree ==
  /\ pc = "scene"
  /\ \E v \in CodecViews :
       /\ viewportX = v.x /\ viewportY = v.y /\ zoom = v.zoom
       /\ srcView = [x |-> v.x, y |-> v.y, zoom |-> v.zoom, from |-> "scene"]
  /\ \E l \in Lists(AgreeObjects, MaxSceneLen) :
       /\ objects = WithIds(l, 1)
       /\ srcObjects = objects
       /\ nextId = Len(l) + 1
  /\ \E ls \in { << >>, (makeFileKey(File1) :> Payload) } : localStorage = ls
  /\ selectedObjectId = 0
  /\ storageFails = FALSE /\ ephemeralTokens = << >> /\ storageFull = FALSE
  /\ lastSerializedHash = << >> /\ hashUpdateHandle = FALSE /\ suppressHash = FALSE
  /\ hashDirty = FALSE /\ skipNextHashWrite = FALSE /\ readyForHashWrites = TRUE
  /\ initialFitDone = FALSE /\ restoredFromHash = FALSE /\ wheelFlushHandle = FALSE
  /\ isDragging = FALSE /\ isPanningCanvas = FALSE /\ dragTarget = 0
  /\ viewAnimation = NoAnimation
  /\ effectDirty = FALSE /\ location = << >> /\ hashchangeQueued = 0
  /\ raised = FALSE
  /\ frag = << >>
  /\ writes = 0 /\ writeLog = << >> /\ gestureLog = << >> /\ windowLog = << >>
  /\ clearLog = << >> /\ budget = 0

agreeFixed == << signals, nextId, store, ctl, gest, viewAnimation, effectDirty, location,
                 hashchangeQueued, raised, srcObjects, hist, budget >>

\* The sample-reflect canvas writes its fragment for the scene.
reflectSerialize ==
  /\ pc = "scene"
  /\ frag' = reflectPrefixedHash(objects)
  /\ pc' = "encoded"
  /\ UNCHANGED << srcView, agreeFixed >>

\* Each canvas decodes the fragment on a fresh page, the viewport at 0, 0, 1.
BothApplyHashState ==
  /\ pc = "encoded"
  /\ srcView' = [reflect |-> reflectDecodeHash(localStorage, storageFails, ephemeralTokens,
                                                frag, 0, 0, Unit),
                 menu |-> DecodeHash(localStorage, storageFails, ephemeralTokens, frag, 0, 0,
                                     Unit)]
  /\ pc' = "decoded"
  /\ UNCHANGED << frag, agreeFixed >>

NextAgree == reflectSerialize \/ BothApplyHashState

SpecAgree == InitAgree /\ [][NextAgree]_vars

\* What the claim compares of an object.
Compared(o) ==
  [type |-> o.type, sourceRef |-> o.sourceRef, x |-> o.x, y |-> o.y, width |-> o.width,
   height |-> o.height, rotation |-> o.rotation]

SameObjects(a, b) ==
  /\ Len(a) = Len(b)
  /\ \A i \in 1..Len(a) : Compared(a[i]) = Compared(b[i])

\* C39: on every fragment the sample-reflect encoder writes for a viewport
\* and a list of images and pages, the split('/') decoder and the
\* right-to-left scan decoder give the same viewport and the same objects.
C39_DecodersAgree ==
  (pc = "decoded") =>
    /\ ~srcView.reflect.raise /\ ~srcView.menu.raise /\ ~srcView.reflect.undef
    /\ srcView.reflect.vx = srcView.menu.vx
    /\ srcView.reflect.vy = srcView.menu.vy
    /\ srcView.reflect.vz = srcView.menu.vz
    /\ SameObjects(srcView.reflect.objs, srcView.menu.objs)

\* C39, the objects alone: the two decoders give the same objects when no
\* two objects of the scene have the same segment.
C39_ObjectsAgree ==
  (pc = "decoded" /\ \A i, j \in 1..Len(objects) :
      reflectSerializeObjectSegment(objects[i]) = reflectSerializeObjectSegment(objects[j])
        => i = j) =>
    SameObjects(srcView.reflect.objs, srcView.menu.objs)

\* C39, the viewport alone: the split('/') decoder restores the viewport of
\* the fragment, rounded, and the scan decoder leaves the viewport where it
\* was.
C39_ViewportOfEach ==
  (pc = "decoded") =>
    /\ srcView.reflect.vx = roundNumber(viewportX, Unit)
    /\ srcView.reflect.vy = roundNumber(viewportY, Unit)
    /\ srcView.reflect.vz = roundNumber(zoom, Unit)
    /\ srcView.menu.vx = 0 /\ srcView.menu.vy = 0 /\ srcView.menu.vz = Unit

====
